---- MODULE Spec2Model ----
(***************************************************************************)
(* Method-table generation (godot-codegen/src/central_generator.rs,        *)
(* godot-codegen/src/util.rs) and the runtime tables the generated code    *)
(* implements: the eager indexed table and the lazy keyed table.           *)
(***************************************************************************)
EXTENDS Integers, Sequences, FiniteSets, TLC

(* ------------------------------------------------------------------------ *)
(* Bounds of the API models that are explored.                              *)
(* ------------------------------------------------------------------------ *)
\* Owners (classes plus builtin variants) of one API model.
MaxOwners == 3
\* Methods declared by one owner.
MaxMethods == 2
\* Methods declared by all owners of one API model together.
MaxMembers == 4
\* Direct allocator calls in one run of the allocator specification.
MaxCalls == 3

(* ------------------------------------------------------------------------ *)
(* API model (domain_models): classes, builtin variants, their methods.     *)
(* ------------------------------------------------------------------------ *)

\* ClassCodegenLevel::with_tables(): [Servers, Scene, Editor], by lower().
with_tables == <<"servers", "scene", "editor">>

LevelSet == {with_tables[i] : i \in 1..Len(with_tables)}

BuiltinTable == "builtin"

TableIds == LevelSet \cup {BuiltinTable}

\* A method of the API model: godot_name() is the name the host knows,
\* name() the (possibly renamed) Rust name; direction() is Outbound{hash}
\* or Virtual.
Method(g, n, o, h) == [godot_name |-> g, name |-> n, outbound |-> o, hash |-> h]

m_a == Method("a", "a", TRUE, 11)
m_b == Method("b", "b", TRUE, 22)
m_c == Method("c", "c", TRUE, 33)
m_r == Method("r", "r_rs", TRUE, 44)
m_v == Method("_v", "v", FALSE, 0)

ClassNames == <<"X", "Y">>

\* The methods each class may declare, in declaration order.
ClassPool == << <<m_a, m_v, m_b>>, <<m_c, m_r, m_a>> >>

\* The API levels each class may belong to.
ClassLevels == << {"scene"}, {"servers", "scene"} >>

BuiltinNames == <<"Vec3", "Callable", "int">>

\* The methods the builtin class of each builtin variant may declare; a
\* variant without an associated builtin class (int) has none.
BuiltinPool == << <<m_a, m_b>>, <<m_c>>, <<>> >>

BuiltinHasClass == <<TRUE, TRUE, FALSE>>

\* The subsequence of pool selected by the index set T.
SubSeqOf(pool, T) ==
    LET F[i \in 0..Len(pool)] ==
            IF i = 0 THEN <<>>
            ELSE IF i \in T THEN Append(F[i - 1], pool[i]) ELSE F[i - 1]
    IN F[Len(pool)]

SubSeqs(pool, max) ==
    {SubSeqOf(pool, T) : T \in {S \in SUBSET (1..Len(pool)) : Cardinality(S) <= max}}

ClassAt(i) ==
    {[name |-> ClassNames[i], api_level |-> l, methods |-> ms] :
        l \in ClassLevels[i], ms \in SubSeqs(ClassPool[i], MaxMethods)}

BuiltinAt(i) ==
    {[name |-> BuiltinNames[i], has_class |-> BuiltinHasClass[i], methods |-> ms] :
        ms \in SubSeqs(BuiltinPool[i], MaxMethods)}

ClassLists ==
    UNION {{cs \in [1..n -> UNION {ClassAt(i) : i \in 1..n}] :
                \A i \in 1..n : cs[i] \in ClassAt(i)} : n \in 0..Len(ClassNames)}

BuiltinLists ==
    UNION {{bs \in [1..n -> UNION {BuiltinAt(i) : i \in 1..n}] :
                \A i \in 1..n : bs[i] \in BuiltinAt(i)} : n \in 0..Len(BuiltinNames)}

\* The number of methods the owners of a list declare.
DeclaredMethods(owners) ==
    LET F[i \in 0..Len(owners)] ==
            IF i = 0 THEN 0 ELSE F[i - 1] + Len(owners[i].methods)
    IN F[Len(owners)]

\* ExtensionApi: the classes and builtins the generator walks.
ApiModels ==
    {a \in [classes : ClassLists, builtins : BuiltinLists] :
        /\ Len(a.classes) + Len(a.builtins) <= MaxOwners
        /\ DeclaredMethods(a.classes) + DeclaredMethods(a.builtins) <= MaxMembers}


(* ------------------------------------------------------------------------ *)
(* Keys and the index allocator.                                            *)
(* ------------------------------------------------------------------------ *)

\* Variant of from_class whose key leaves the method name out.
from_class_no_method(class, method) ==
    [kind |-> "ClassMethod", api_level |-> class.api_level,
     ty |-> class.name, method_name |-> ""]

\* MethodTableKey::from_class: level, owning class and the Godot method name.
from_class(class, method) ==
    [kind |-> "ClassMethod", api_level |-> class.api_level,
     ty |-> class.name, method_name |-> method.godot_name]

\* Variant of from_builtin whose key leaves the method name out.
from_builtin_no_method(builtin_class, method) ==
    [kind |-> "BuiltinMethod", api_level |-> "-",
     ty |-> builtin_class.name, method_name |-> ""]

\* MethodTableKey::from_builtin (a builtin key has no api_level field: "-").
from_builtin(builtin_class, method) ==
    [kind |-> "BuiltinMethod", api_level |-> "-",
     ty |-> builtin_class.name, method_name |-> method.godot_name]

\* Variant of category with one namespace for all class levels.
category_one_class_space(key) ==
    IF key.kind = "ClassMethod" THEN "class.scene" ELSE "builtin"

\* MethodTableKey::category: the index namespace of a key.
category(key) ==
    IF key.kind = "ClassMethod" THEN "class." \o key.api_level ELSE "builtin"

Categories == {"class." \o l : l \in LevelSet} \cup {"builtin"}

\* The category whose indices the table t holds.
TableCategory(t) == IF t = BuiltinTable THEN "builtin" ELSE "class." \o t

\* Context at the start of a generation run: no key has an index, every
\* category's counter is at 0.
NewContext ==
    [method_table_indices |-> <<>>,
     method_table_next_index |-> [c \in Categories |-> 0]]

\* Context::get_table_index: the index of key, allocated on first request
\* from the counter of the key's category.
get_table_index(c, key) ==
    IF key \in DOMAIN c.method_table_indices
    THEN [ctx |-> c, index |-> c.method_table_indices[key]]
    ELSE LET cat == category(key)
             next_index == c.method_table_next_index[cat]
         IN [ctx |-> [method_table_indices |->
                          (key :> next_index) @@ c.method_table_indices,
                      method_table_next_index |->
                          [c.method_table_next_index EXCEPT ![cat] = next_index + 1]],
             index |-> next_index]

(* ------------------------------------------------------------------------ *)
(* Table descriptors.                                                       *)
(* ------------------------------------------------------------------------ *)

\* special_cases::is_named_accessor_in_table: the (owner, Godot method name)
\* pairs that get a named accessor; the policy also names the virtual
\* method _v of X.
NamedAccessorAllowList ==
    {<<"X", "a">>, <<"X", "_v">>, <<"Y", "r">>, <<"Y", "a">>, <<"Vec3", "b">>,
     <<"Callable", "c">>}

is_named_accessor_in_table(ty, godot_method_name) ==
    <<ty, godot_method_name>> \in NamedAccessorAllowList

\* conv::to_snake_case on the owner names of the API models.
to_snake_case(s) ==
    CASE s = "X" -> "x"
      [] s = "Y" -> "y"
      [] s = "Vec3" -> "vec3"
      [] s = "Callable" -> "callable"
      [] s = "Vec3i" -> "vec3i"
      [] OTHER -> s

\* Variant of make_table_accessor_name that leaves the owner out of the name.
make_table_accessor_name_unscoped(class_ty, method) ==
    method.godot_name

\* util::make_table_accessor_name
make_table_accessor_name(class_ty, method) ==
    to_snake_case(class_ty) \o "__" \o method.godot_name

\* IndexedMethodTable as make_class_method_table / make_builtin_method_table
\* create it, before any owner is populated.
NewIndexedMethodTable(kind) ==
    [kind |-> kind, method_init_groups |-> <<>>, named_accessors |-> <<>>,
     class_count |-> 0, method_count |-> 0]

\* MethodInitGroup::new: the class variable is created only if one was
\* passed and the group has methods.
MethodInitGroup_new(godot_class_name, class_var, method_inits) ==
    [class_name |-> godot_class_name,
     class_var_init |-> IF class_var = "" \/ method_inits = <<>>
                        THEN "" ELSE class_var,
     method_inits |-> method_inits]

\* make_class_method_init: the arguments of the emitted load_class_method call.
make_class_method_init(method, hash, class_var, class_ty) ==
    [loader |-> "load_class_method", class_var |-> class_var,
     owner |-> class_ty, method_name |-> method.godot_name, hash |-> hash]

\* make_builtin_method_init: the arguments of the emitted load_builtin_method call.
make_builtin_method_init(builtin, method, index) ==
    [loader |-> "load_builtin_method", class_var |-> "",
     owner |-> builtin.name, method_name |-> method.name, hash |-> method.hash]

\* The lazy key a named accessor of a class method is given.
ClassAccessorLazyKey(class_ty, method, hash) ==
    [owner |-> class_ty, method_name |-> method.name, hash |-> hash]

\* The lazy key a named accessor of a builtin method is given.
BuiltinAccessorLazyKey(builtin, method) ==
    [owner |-> builtin.name, method_name |-> method.name, hash |-> method.hash]

\* Variant of populate_class_methods without the direction check: virtual
\* methods are handled like outbound ones.
populate_class_methods_all_directions(table, class, c) ==
    LET class_ty == class.name
        class_var == "sname_" \o class_ty
        Step[i \in 0..Len(class.methods)] ==
            IF i = 0 THEN [table |-> table, ctx |-> c, method_inits |-> <<>>]
            ELSE LET prev == Step[i - 1]
                     method == class.methods[i]
                     hash == method.hash
                     r == get_table_index(prev.ctx, from_class(class, method))
                     init == [method_init |->
                                  make_class_method_init(method, hash, class_var, class_ty),
                              index |-> r.index]
                     t1 == [prev.table EXCEPT !.method_count = @ + 1]
                     t2 == IF is_named_accessor_in_table(class_ty, method.godot_name)
                           THEN [t1 EXCEPT !.named_accessors = Append(@,
                                    [name |-> make_table_accessor_name(class_ty, method),
                                     index |-> r.index,
                                     lazy_key |-> ClassAccessorLazyKey(class_ty, method, hash)])]
                           ELSE t1
                 IN [table |-> t2, ctx |-> r.ctx,
                     method_inits |-> Append(prev.method_inits, init)]
        end == Step[Len(class.methods)]
    IN IF end.method_inits # <<>>
       THEN [table |-> [end.table EXCEPT
                            !.method_init_groups = Append(@,
                                MethodInitGroup_new(class_ty, class_var, end.method_inits)),
                            !.class_count = @ + 1],
             ctx |-> end.ctx]
       ELSE [table |-> end.table, ctx |-> end.ctx]

\* Variant of populate_class_methods that asks for the index before the
\* direction check, so virtual methods take an index too.
populate_class_methods_index_first(table, class, c) ==
    LET class_ty == class.name
        class_var == "sname_" \o class_ty
        Step[i \in 0..Len(class.methods)] ==
            IF i = 0 THEN [table |-> table, ctx |-> c, method_inits |-> <<>>]
            ELSE LET prev == Step[i - 1]
                     method == class.methods[i]
                 IN IF ~method.outbound
                    THEN [prev EXCEPT !.ctx =
                             get_table_index(prev.ctx, from_class(class, method)).ctx]
                    ELSE LET hash == method.hash
                             r == get_table_index(prev.ctx, from_class(class, method))
                             init == [method_init |->
                                          make_class_method_init(method, hash, class_var, class_ty),
                                      index |-> r.index]
                             t1 == [prev.table EXCEPT !.method_count = @ + 1]
                             t2 == IF is_named_accessor_in_table(class_ty, method.godot_name)
                                   THEN [t1 EXCEPT !.named_accessors = Append(@,
                                            [name |-> make_table_accessor_name(class_ty, method),
                                             index |-> r.index,
                                             lazy_key |-> ClassAccessorLazyKey(class_ty, method, hash)])]
                                   ELSE t1
                         IN [table |-> t2, ctx |-> r.ctx,
                             method_inits |-> Append(prev.method_inits, init)]
        end == Step[Len(class.methods)]
    IN IF end.method_inits # <<>>
       THEN [table |-> [end.table EXCEPT
                            !.method_init_groups = Append(@,
                                MethodInitGroup_new(class_ty, class_var, end.method_inits)),
                            !.class_count = @ + 1],
             ctx |-> end.ctx]
       ELSE [table |-> end.table, ctx |-> end.ctx]

\* populate_class_methods: one class's outbound methods get an index, an
\* initializer and, if requested, a named accessor; a class with at least
\* one initializer adds a group and counts as a class.
populate_class_methods(table, class, c) ==
    LET class_ty == class.name
        class_var == "sname_" \o class_ty
        Step[i \in 0..Len(class.methods)] ==
            IF i = 0 THEN [table |-> table, ctx |-> c, method_inits |-> <<>>]
            ELSE LET prev == Step[i - 1]
                     method == class.methods[i]
                 IN IF ~method.outbound THEN prev
                    ELSE LET hash == method.hash
                             r == get_table_index(prev.ctx, from_class(class, method))
                             init == [method_init |->
                                          make_class_method_init(method, hash, class_var, class_ty),
                                      index |-> r.index]
                             t1 == [prev.table EXCEPT !.method_count = @ + 1]
                             t2 == IF is_named_accessor_in_table(class_ty, method.godot_name)
                                   THEN [t1 EXCEPT !.named_accessors = Append(@,
                                            [name |-> make_table_accessor_name(class_ty, method),
                                             index |-> r.index,
                                             lazy_key |-> ClassAccessorLazyKey(class_ty, method, hash)])]
                                   ELSE t1
                         IN [table |-> t2, ctx |-> r.ctx,
                             method_inits |-> Append(prev.method_inits, init)]
        end == Step[Len(class.methods)]
    IN IF end.method_inits # <<>>
       THEN [table |-> [end.table EXCEPT
                            !.method_init_groups = Append(@,
                                MethodInitGroup_new(class_ty, class_var, end.method_inits)),
                            !.class_count = @ + 1],
             ctx |-> end.ctx]
       ELSE [table |-> end.table, ctx |-> end.ctx]

\* Variant of populate_builtin_methods that adds and counts the variant's
\* group only if it has methods.
populate_builtin_methods_skip_empty(table, builtin, c) ==
    IF ~builtin.has_class THEN [table |-> table, ctx |-> c]
    ELSE
    LET builtin_ty == builtin.name
        Step[i \in 0..Len(builtin.methods)] ==
            IF i = 0 THEN [table |-> table, ctx |-> c, method_inits |-> <<>>]
            ELSE LET prev == Step[i - 1]
                     method == builtin.methods[i]
                     r == get_table_index(prev.ctx, from_builtin(builtin, method))
                     init == [method_init |-> make_builtin_method_init(builtin, method, r.index),
                              index |-> r.index]
                     t1 == [prev.table EXCEPT !.method_count = @ + 1]
                     t2 == IF is_named_accessor_in_table(builtin_ty, method.godot_name)
                           THEN [t1 EXCEPT !.named_accessors = Append(@,
                                    [name |-> make_table_accessor_name(builtin_ty, method),
                                     index |-> r.index,
                                     lazy_key |-> BuiltinAccessorLazyKey(builtin, method)])]
                           ELSE t1
                 IN [table |-> t2, ctx |-> r.ctx,
                     method_inits |-> Append(prev.method_inits, init)]
        end == Step[Len(builtin.methods)]
    IN IF end.method_inits # <<>>
       THEN [table |-> [end.table EXCEPT
                            !.method_init_groups = Append(@,
                                MethodInitGroup_new(builtin_ty, "", end.method_inits)),
                            !.class_count = @ + 1],
             ctx |-> end.ctx]
       ELSE [table |-> end.table, ctx |-> end.ctx]

\* populate_builtin_methods: a variant without a builtin class is ignored;
\* otherwise every method gets an index and an initializer, and the
\* variant's group is added and counted.
populate_builtin_methods(table, builtin, c) ==
    IF ~builtin.has_class THEN [table |-> table, ctx |-> c]
    ELSE
    LET builtin_ty == builtin.name
        Step[i \in 0..Len(builtin.methods)] ==
            IF i = 0 THEN [table |-> table, ctx |-> c, method_inits |-> <<>>]
            ELSE LET prev == Step[i - 1]
                     method == builtin.methods[i]
                     r == get_table_index(prev.ctx, from_builtin(builtin, method))
                     init == [method_init |-> make_builtin_method_init(builtin, method, r.index),
                              index |-> r.index]
                     t1 == [prev.table EXCEPT !.method_count = @ + 1]
                     t2 == IF is_named_accessor_in_table(builtin_ty, method.godot_name)
                           THEN [t1 EXCEPT !.named_accessors = Append(@,
                                    [name |-> make_table_accessor_name(builtin_ty, method),
                                     index |-> r.index,
                                     lazy_key |-> BuiltinAccessorLazyKey(builtin, method)])]
                           ELSE t1
                 IN [table |-> t2, ctx |-> r.ctx,
                     method_inits |-> Append(prev.method_inits, init)]
        end == Step[Len(builtin.methods)]
    IN [table |-> [end.table EXCEPT
                       !.method_init_groups = Append(@,
                           MethodInitGroup_new(builtin_ty, "", end.method_inits)),
                       !.class_count = @ + 1],
        ctx |-> end.ctx]

\* Sum of the groups' initializer counts.
SumInits(groups) ==
    LET F[i \in 0..Len(groups)] ==
            IF i = 0 THEN 0 ELSE F[i - 1] + Len(groups[i].method_inits)
    IN F[Len(groups)]

\* Variant of the checks that passes over a last group without initializers.
EagerTableChecks_skip_empty_last(info) ==
    IF SumInits(info.method_init_groups) # info.method_count
    THEN "number of methods does not match count"
    ELSE IF info.method_init_groups # <<>>
    THEN LET last == info.method_init_groups[Len(info.method_init_groups)]
         IN IF last.method_inits = <<>>
            THEN "ok"
            ELSE IF last.method_inits[Len(last.method_inits)].index # info.method_count - 1
            THEN "last method should have highest index"
            ELSE "ok"
    ELSE IF info.method_count # 0
    THEN "empty method table should have count 0"
    ELSE "ok"

\* The build-time checks of the eager make_method_table: "ok", or the
\* message of the assertion (or unwrap) that fails.
EagerTableChecks(info) ==
    IF SumInits(info.method_init_groups) # info.method_count
    THEN "number of methods does not match count"
    ELSE IF info.method_init_groups # <<>>
    THEN LET last == info.method_init_groups[Len(info.method_init_groups)]
         IN IF last.method_inits = <<>>
            THEN "called Option::unwrap() on a None value"
            ELSE IF last.method_inits[Len(last.method_inits)].index # info.method_count - 1
            THEN "last method should have highest index"
            ELSE "ok"
    ELSE IF info.method_count # 0
    THEN "empty method table should have count 0"
    ELSE "ok"

\* make_method_table under either build configuration: the lazy variant
\* ignores the groups and checks nothing.
make_method_table(info, strat) ==
    IF strat = "eager" THEN EagerTableChecks(info) ELSE "ok"

(* ------------------------------------------------------------------------ *)
(* The host and the loaders of godot-ffi the emitted code calls.            *)
(* ------------------------------------------------------------------------ *)

Null == <<"null", "null">>

\* The outbound members the host binary exposes, as (owner, name, hash).
HostMembers(a) ==
    UNION {{<<a.classes[i].name, a.classes[i].methods[j].godot_name,
              a.classes[i].methods[j].hash>> :
               j \in {k \in 1..Len(a.classes[i].methods) : a.classes[i].methods[k].outbound}} :
           i \in 1..Len(a.classes)}
    \cup
    UNION {{<<a.builtins[i].name, a.builtins[i].methods[j].godot_name,
              a.builtins[i].methods[j].hash>> :
               j \in 1..Len(a.builtins[i].methods)} :
           i \in {k \in 1..Len(a.builtins) : a.builtins[k].has_class}}

\* Host Resolver: the method bind of (owner, member, hash), or null when the
\* host has no such member under that hash or refuses it (bad).
HostResolve(a, bad, owner, method_name, hash) ==
    IF <<owner, method_name, hash>> \in HostMembers(a) \ bad
    THEN <<owner, method_name>>
    ELSE Null

IsPanic(v) == v[1] = "panic"

\* load_class_method / load_builtin_method: a null result of the host is a
\* panic naming the member and the hash.
load_method(a, bad, owner, method_name, hash) ==
    LET p == HostResolve(a, bad, owner, method_name, hash)
    IN IF p = Null
       THEN <<"panic", "Failed to load method " \o owner \o "::" \o method_name
                        \o " (hash " \o ToString(hash) \o ")">>
       ELSE p

(* ------------------------------------------------------------------------ *)
(* Emitted code: eager table.                                               *)
(* ------------------------------------------------------------------------ *)

\* Variant of the group loader that inserts each pointer at the front.
LoadGroup_push_front(a, bad, group, st) ==
    LET st0 == IF group.class_var_init # ""
               THEN [st EXCEPT !.fetched = Append(@, group.class_name),
                               !.events = Append(@, <<"string_cache", group.class_name>>)]
               ELSE st
        F[i \in 0..Len(group.method_inits)] ==
            IF i = 0 THEN st0
            ELSE LET prev == F[i - 1]
                     mi == group.method_inits[i].method_init
                     p == load_method(a, bad, mi.owner, mi.method_name, mi.hash)
                 IN IF prev.panic # "" THEN prev
                    ELSE IF IsPanic(p)
                    THEN [prev EXCEPT !.panic = p[2],
                                      !.events = Append(@, <<"resolve", mi.owner,
                                                             mi.method_name>>),
                                      !.resolver_log = @ \cup {[owner |-> mi.owner,
                                           method_name |-> mi.method_name,
                                           hash |-> mi.hash]}]
                    ELSE [prev EXCEPT !.function_pointers = <<p>> \o @,
                                      !.events = Append(@, <<"resolve", mi.owner,
                                                             mi.method_name>>),
                                      !.resolver_log = @ \cup {[owner |-> mi.owner,
                                           method_name |-> mi.method_name,
                                           hash |-> mi.hash]}]
    IN F[Len(group.method_inits)]

\* Variant of the group loader that asks the string cache for the owner's
\* name before every member.
LoadGroup_fetch_per_member(a, bad, group, st) ==
    LET F[i \in 0..Len(group.method_inits)] ==
            IF i = 0 THEN st
            ELSE LET prev == F[i - 1]
                     mi == group.method_inits[i].method_init
                     p == load_method(a, bad, mi.owner, mi.method_name, mi.hash)
                     ev == IF group.class_var_init # ""
                           THEN <<<<"string_cache", group.class_name>>,
                                  <<"resolve", mi.owner, mi.method_name>>>>
                           ELSE <<<<"resolve", mi.owner, mi.method_name>>>>
                     key == [owner |-> mi.owner, method_name |-> mi.method_name,
                             hash |-> mi.hash]
                 IN IF prev.panic # "" THEN prev
                    ELSE IF IsPanic(p)
                    THEN [prev EXCEPT !.panic = p[2], !.events = @ \o ev,
                                      !.resolver_log = @ \cup {key}]
                    ELSE [prev EXCEPT !.function_pointers = Append(@, p),
                                      !.events = @ \o ev,
                                      !.resolver_log = @ \cup {key}]
    IN F[Len(group.method_inits)]

\* load_<class>_methods: the class variable, if any, is fetched once from
\* the string cache; then each initializer's pointer is pushed. events is
\* the order in which the String Cache is asked for an owner name and the
\* Host Resolver for a member.
LoadGroup(a, bad, group, st) ==
    LET st0 == IF group.class_var_init # ""
               THEN [st EXCEPT !.fetched = Append(@, group.class_name),
                               !.events = Append(@, <<"string_cache", group.class_name>>)]
               ELSE st
        F[i \in 0..Len(group.method_inits)] ==
            IF i = 0 THEN st0
            ELSE LET prev == F[i - 1]
                     mi == group.method_inits[i].method_init
                     p == load_method(a, bad, mi.owner, mi.method_name, mi.hash)
                 IN IF prev.panic # "" THEN prev
                    ELSE IF IsPanic(p)
                    THEN [prev EXCEPT !.panic = p[2],
                                      !.events = Append(@, <<"resolve", mi.owner,
                                                             mi.method_name>>),
                                      !.resolver_log = @ \cup {[owner |-> mi.owner,
                                           method_name |-> mi.method_name,
                                           hash |-> mi.hash]}]
                    ELSE [prev EXCEPT !.function_pointers = Append(@, p),
                                      !.events = Append(@, <<"resolve", mi.owner,
                                                             mi.method_name>>),
                                      !.resolver_log = @ \cup {[owner |-> mi.owner,
                                           method_name |-> mi.method_name,
                                           hash |-> mi.hash]}]
    IN F[Len(group.method_inits)]

\* Eager load(): the groups run in registration order on an empty vector.
EagerLoad(a, bad, info) ==
    LET F[g \in 0..Len(info.method_init_groups)] ==
            IF g = 0 THEN [function_pointers |-> <<>>, fetched |-> <<>>, panic |-> "",
                           resolver_log |-> {}, events |-> <<>>]
            ELSE IF F[g - 1].panic # "" THEN F[g - 1]
            ELSE LoadGroup(a, bad, info.method_init_groups[g], F[g - 1])
    IN F[Len(info.method_init_groups)]

\* What an out-of-range get_unchecked may produce.
UncheckedOutcomes == {Null, <<"ub", "crash">>}

\* All initializers of a table, in group order.
AllInits(info) ==
    LET F[g \in 0..Len(info.method_init_groups)] ==
            IF g = 0 THEN <<>> ELSE F[g - 1] \o info.method_init_groups[g].method_inits
    IN F[Len(info.method_init_groups)]

\* The key of a generic call site for the member an initializer resolves.
CallSiteKey(mi) == [owner |-> mi.owner, method_name |-> mi.method_name, hash |-> mi.hash]

CallSiteKeys(info) ==
    LET inits == AllInits(info)
    IN {CallSiteKey(inits[i].method_init) : i \in 1..Len(inits)}

(* ------------------------------------------------------------------------ *)
(* Emitted code: lazy table.                                                *)
(* ------------------------------------------------------------------------ *)

\* Variant of the lazy constructor that resolves every member up front.
LazyLoadCache_prefilled(a, bad, info) ==
    LET inits == AllInits(info)
        ok == {i \in 1..Len(inits) :
                 HostResolve(a, bad, inits[i].method_init.owner,
                             inits[i].method_init.method_name,
                             inits[i].method_init.hash) # Null}
    IN [k \in {CallSiteKey(inits[i].method_init) : i \in ok} |->
           HostResolve(a, bad, k.owner, k.method_name, k.hash)]

\* Lazy load(): the function_pointers map starts empty (HashMap::new()).
LazyLoadCache(a, bad, info) == <<>>

\* Variant of fptr_by_key that uses insert(key, init()) instead of
\* entry(key).or_insert_with(init): the initializer runs on every lookup.
fptr_by_key_insert(a, bad, cache, key) ==
    LET p == load_method(a, bad, key.owner, key.method_name, key.hash)
    IN IF IsPanic(p)
       THEN [cache |-> cache, value |-> p, resolved |-> TRUE]
       ELSE [cache |-> (key :> p) @@ cache, value |-> p, resolved |-> TRUE]

\* Variant of fptr_by_key that stores a null placeholder when resolution fails.
fptr_by_key_placeholder(a, bad, cache, key) ==
    IF key \in DOMAIN cache
    THEN [cache |-> cache, value |-> cache[key], resolved |-> FALSE]
    ELSE LET p == load_method(a, bad, key.owner, key.method_name, key.hash)
         IN IF IsPanic(p)
            THEN [cache |-> (key :> Null) @@ cache, value |-> p, resolved |-> TRUE]
            ELSE [cache |-> (key :> p) @@ cache, value |-> p, resolved |-> TRUE]

\* fptr_by_key: entry(key).or_insert_with(lazy_method_init); a panic inside
\* the initializer leaves the map as it was.
fptr_by_key(a, bad, cache, key) ==
    IF key \in DOMAIN cache
    THEN [cache |-> cache, value |-> cache[key], resolved |-> FALSE]
    ELSE LET p == load_method(a, bad, key.owner, key.method_name, key.hash)
         IN IF IsPanic(p)
            THEN [cache |-> cache, value |-> p, resolved |-> TRUE]
            ELSE [cache |-> (key :> p) @@ cache, value |-> p, resolved |-> TRUE]

NoKey == [owner |-> "-", method_name |-> "-", hash |-> 0]

(* ------------------------------------------------------------------------ *)
(* BuiltinLifecycleTable: make_variant_fns and what it calls.               *)
(* ------------------------------------------------------------------------ *)

\* Longest constructor list of a builtin class.
MaxCtors == 3

\* One parameter of a constructor (raw_parameters entry).
Param(n, t) == [name |-> n, type_ |-> t]

\* The parameter lists constructors declare: none, copy of Vec3, conversion
\* from Vec3i, one parameter not named "from", two parameters, two
\* parameters of which the first is named "from".
ParamLists ==
    {<<>>,
     <<Param("from", "Vec3")>>,
     <<Param("from", "Vec3i")>>,
     <<Param("x", "Vec3i")>>,
     <<Param("x", "float"), Param("y", "float")>>,
     <<Param("from", "Vec3"), Param("y", "float")>>}

\* The parameter lists of the constructor at (0-based) position i that the
\* generator tells apart: the default constructor has parameters or not,
\* the copy constructor is the copy, or has the wrong type, name or length;
\* a later constructor may have any of the lists.
ParamListsAt(i) ==
    IF i = 0 THEN {<<>>, <<Param("from", "Vec3")>>}
    ELSE IF i = 1
    THEN {<<Param("from", "Vec3")>>, <<Param("from", "Vec3i")>>,
          <<Param("x", "Vec3i")>>, <<Param("x", "float"), Param("y", "float")>>}
    ELSE ParamLists

\* The constructor at (1-based) position n declares index n - 1, or n when
\* it is the malformed entry of its list.
CtorAt(n, bad, ps) == [index |-> IF n = bad THEN n ELSE n - 1, raw_parameters |-> ps]

\* The constructor lists of a builtin class: up to MaxCtors entries, of
\* which at most one (bad) declares an index that is not its position.
CtorLists ==
    UNION {{[n \in 1..len |-> CtorAt(n, bad, ps[n])] :
               ps \in {q \in [1..len -> ParamLists] :
                          \A n \in 1..len : q[n] \in ParamListsAt(n - 1)},
               bad \in 0..len} :
           len \in 0..MaxCtors}

\* The operator lists of a builtin class (symbols).
OperatorLists == {<<>>, <<"==">>, <<"+", "<">>}

\* The builtin variants make_variant_fns is applied to: Vec3 with a builtin
\* class, and a variant without one (which then declares nothing).
LifecycleVariants ==
    {[name |-> "Vec3", has_class |-> TRUE, constructors |-> cs,
      has_destructor |-> d, operators |-> ops] :
        cs \in CtorLists, d \in BOOLEAN, ops \in OperatorLists}
    \cup {[name |-> "int", has_class |-> FALSE, constructors |-> <<>>,
           has_destructor |-> FALSE, operators |-> <<>>]}

NoBuiltin ==
    [name |-> "-", has_class |-> FALSE, constructors |-> <<>>,
     has_destructor |-> FALSE, operators |-> <<>>]

\* The catalog of builtins the lifecycle table is generated from.
LifecycleApi ==
    [classes |-> <<>>,
     builtins |-> <<[name |-> "Vec3", has_class |-> TRUE, methods |-> <<>>],
                    [name |-> "Vec3i", has_class |-> TRUE, methods |-> <<>>],
                    [name |-> "int", has_class |-> FALSE, methods |-> <<>>]>>]

\* ExtensionApi::builtin_by_original_name on the catalog.
builtin_by_original_name(a, name) ==
    a.builtins[CHOOSE i \in 1..Len(a.builtins) : a.builtins[i].name = name]

\* One emitted field initializer of the lifecycle table: the field name, the
\* host getter it calls and the getter's argument.
LifecycleInit(name, getter, arg) == [name |-> name, getter |-> getter, arg |-> arg]

\* The parameter names joined by '_' (fold, then pop of the trailing '_').
JoinArgNames(args) ==
    LET F[i \in 0..Len(args)] ==
            IF i = 0 THEN ""
            ELSE IF i = 1 THEN args[1].name
            ELSE F[i - 1] \o "_" \o args[i].name
    IN F[Len(args)]

\* Variant of make_extra_constructors that numbers the extra constructors
\* from 0.
make_extra_constructors_rebased(a, builtin, constructors) ==
    LET type_name == to_snake_case(builtin.name)
        F[n \in 2..Len(constructors)] ==
            IF n = 2 THEN [panic |-> "", inits |-> <<>>]
            ELSE LET prev == F[n - 1]
                     i == n - 1
                     args == constructors[n].raw_parameters
                     construct_custom ==
                         IF Len(args) = 1 /\ args[1].name = "from"
                         THEN type_name \o "_from_"
                              \o to_snake_case(builtin_by_original_name(a, args[1].type_).name)
                         ELSE type_name \o "_from_" \o JoinArgNames(args)
                 IN IF prev.panic # "" THEN prev
                    ELSE IF args = <<>>
                    THEN [panic |-> "custom constructors must have at least 1 parameter",
                          inits |-> <<>>]
                    ELSE [prev EXCEPT !.inits = Append(@,
                             LifecycleInit(construct_custom, "get_construct_fn", i - 2))]
    IN F[Len(constructors)]

\* make_extra_constructors: the constructors from position 2 on, each named
\* after its source type or its parameter names and given its position as
\* constructor index (n is the 1-based position, i the position of the code).
make_extra_constructors(a, builtin, constructors) ==
    LET type_name == to_snake_case(builtin.name)
        F[n \in 2..Len(constructors)] ==
            IF n = 2 THEN [panic |-> "", inits |-> <<>>]
            ELSE LET prev == F[n - 1]
                     i == n - 1
                     args == constructors[n].raw_parameters
                     construct_custom ==
                         IF Len(args) = 1 /\ args[1].name = "from"
                         THEN type_name \o "_from_"
                              \o to_snake_case(builtin_by_original_name(a, args[1].type_).name)
                         ELSE type_name \o "_from_" \o JoinArgNames(args)
                 IN IF prev.panic # "" THEN prev
                    ELSE IF args = <<>>
                    THEN [panic |-> "custom constructors must have at least 1 parameter",
                          inits |-> <<>>]
                    ELSE [prev EXCEPT !.inits = Append(@,
                             LifecycleInit(construct_custom, "get_construct_fn", i))]
    IN F[Len(constructors)]

\* Variant of the sanity checks without the comparison of declared index
\* and position.
ConstructChecks_no_index_check(builtin, constructors) ==
    IF constructors[1].raw_parameters # <<>>
    THEN "default constructor at index 0 must have no parameters"
    ELSE IF Len(constructors) < 2
    THEN "index out of bounds: the len is 1 but the index is 1"
    ELSE LET args == constructors[2].raw_parameters
         IN IF Len(args) # 1
            THEN "assertion left == right failed: args.len()"
            ELSE IF args[1].name # "from"
            THEN "assertion left == right failed: args[0].name"
            ELSE IF args[1].type_ # builtin.name
            THEN "assertion left == right failed: args[0].type_"
            ELSE "ok"

\* The sanity checks of make_construct_fns on a non-empty list: "ok", or
\* the panic of the first check that fails (constructors[1] on a list of one
\* entry is an index out of bounds).
ConstructChecks(builtin, constructors) ==
    IF \E n \in 1..Len(constructors) : constructors[n].index # n - 1
    THEN "assertion left == right failed: c.index"
    ELSE IF constructors[1].raw_parameters # <<>>
    THEN "default constructor at index 0 must have no parameters"
    ELSE IF Len(constructors) < 2
    THEN "index out of bounds: the len is 1 but the index is 1"
    ELSE LET args == constructors[2].raw_parameters
         IN IF Len(args) # 1
            THEN "assertion left == right failed: args.len()"
            ELSE IF args[1].name # "from"
            THEN "assertion left == right failed: args[0].name"
            ELSE IF args[1].type_ # builtin.name
            THEN "assertion left == right failed: args[0].type_"
            ELSE "ok"

\* make_construct_fns: nothing for an empty list; otherwise the checks, the
\* default constructor (index 0), the copy constructor (index 1) and the
\* extra constructors.
make_construct_fns(a, builtin, constructors) ==
    IF constructors = <<>> THEN [panic |-> "", inits |-> <<>>]
    ELSE LET chk == ConstructChecks(builtin, constructors)
             snake == to_snake_case(builtin.name)
             extra == make_extra_constructors(a, builtin, constructors)
         IN IF chk # "ok" THEN [panic |-> chk, inits |-> <<>>]
            ELSE IF extra.panic # "" THEN extra
            ELSE [panic |-> "",
                  inits |-> <<LifecycleInit(snake \o "_construct_default", "get_construct_fn", 0),
                              LifecycleInit(snake \o "_construct_copy", "get_construct_fn", 1)>>
                            \o extra.inits]

\* make_destroy_fns
make_destroy_fns(builtin, has_destructor) ==
    IF ~has_destructor THEN <<>>
    ELSE <<LifecycleInit(to_snake_case(builtin.name) \o "_destroy", "get_destroy_fn", "-")>>

\* Variant of make_operator_fns that emits the evaluator whenever the
\* operator list is not empty.
make_operator_fns_any_symbol(builtin, operators, json_symbol, sys_name) ==
    IF operators = <<>>
    THEN <<>>
    ELSE <<LifecycleInit(to_snake_case(builtin.name) \o "_operator_" \o sys_name,
                         "get_operator_fn", sys_name)>>

\* make_operator_fns
make_operator_fns(builtin, operators, json_symbol, sys_name) ==
    IF operators = <<>> \/ ~(\E k \in 1..Len(operators) : operators[k] = json_symbol)
    THEN <<>>
    ELSE <<LifecycleInit(to_snake_case(builtin.name) \o "_operator_" \o sys_name,
                         "get_operator_fn", sys_name)>>

\* make_variant_fns: to_variant and from_variant for every variant, then, if
\* the variant has a builtin class, operators, constructors and destructor.
make_variant_fns(a, builtin) ==
    LET snake == to_snake_case(builtin.name)
        base == <<LifecycleInit(snake \o "_to_variant", "get_to_variant_fn", "-"),
                  LifecycleInit(snake \o "_from_variant", "get_from_variant_fn", "-")>>
        construct == make_construct_fns(a, builtin, builtin.constructors)
    IN IF ~builtin.has_class THEN [panic |-> "", inits |-> base]
       ELSE IF construct.panic # "" THEN [panic |-> construct.panic, inits |-> <<>>]
       ELSE [panic |-> "",
             inits |-> base
                       \o make_operator_fns(builtin, builtin.operators, "==", "equal")
                       \o make_operator_fns(builtin, builtin.operators, "<", "less")
                       \o construct.inits
                       \o make_destroy_fns(builtin, builtin.has_destructor)]

\* The host's lifecycle getters: a constructor exists at the indices the
\* builtin declares, a destructor or operator where it declares one; the
\* conversions exist always.
HostLifecycle(builtin, getter, arg) ==
    IF getter = "get_construct_fn"
    THEN IF arg \in 0..(Len(builtin.constructors) - 1)
         THEN <<builtin.name, "constructor " \o ToString(arg)>>
         ELSE Null
    ELSE IF getter = "get_destroy_fn"
    THEN IF builtin.has_destructor THEN <<builtin.name, "destructor">> ELSE Null
    ELSE IF getter = "get_operator_fn"
    THEN IF \E k \in 1..Len(builtin.operators) :
               (builtin.operators[k] = "==" /\ arg = "equal")
               \/ (builtin.operators[k] = "<" /\ arg = "less")
         THEN <<builtin.name, "operator " \o arg>>
         ELSE Null
    ELSE <<builtin.name, getter>>

\* validate_builtin_lifecycle: a missing function is a panic naming the field.
validate_builtin_lifecycle(fptr, description) ==
    IF fptr = Null
    THEN <<"panic", "failed to load GDExtension builtin lifecycle function " \o description>>
    ELSE fptr

\* load() of the lifecycle table for the variant's fields: every initializer
\* is run in order; the first panic ends it.
LoadLifecycle(builtin, inits) ==
    LET F[i \in 0..Len(inits)] ==
            IF i = 0 THEN [loaded |-> <<>>, panic |-> ""]
            ELSE LET prev == F[i - 1]
                     p == validate_builtin_lifecycle(
                              HostLifecycle(builtin, inits[i].getter, inits[i].arg),
                              inits[i].name)
                 IN IF prev.panic # "" THEN prev
                    ELSE IF IsPanic(p) THEN [loaded |-> <<>>, panic |-> p[2]]
                    ELSE [prev EXCEPT !.loaded = Append(@, [name |-> inits[i].name, fptr |-> p])]
    IN F[Len(inits)]

(* ------------------------------------------------------------------------ *)
(* State.                                                                   *)
(* ------------------------------------------------------------------------ *)
VARIABLES
    api,        \* the ExtensionApi being generated from
    strategy,   \* "eager", or "lazy" (feature codegen-lazy-fptrs)
    ctx,        \* Context: the index allocator's maps
    tables,     \* per table: the IndexedMethodTable and how far it got
    gen,        \* position of the generation run
    rt,         \* the runtime instance of one emitted table
    ret,        \* what the last runtime call returned
    calls,      \* the allocator calls made directly, with their results
    lifecycle,  \* make_variant_fns for one builtin variant, and the loaded entries
    conc,       \* overlapping fptr_by_key calls on one lazy table
    gd,         \* handles to reference-counted objects and the last uniqueness check
    en          \* the enum handed to try_count_index_enum, and what it returned

vars == <<api, strategy, ctx, tables, gen, rt, ret, calls, lifecycle, conc, gd, en>>

NoTable ==
    [state |-> "none", table |-> "-", host_bad |-> {}, function_pointers |-> <<>>,
     fetched |-> <<>>, cache |-> <<>>, requested |-> {}, returned |-> {}, panic |-> "",
     resolver_log |-> {}, events |-> <<>>]

\* No lifecycle table is being generated.
NoLifecycle ==
    [pc |-> "none", builtin |-> NoBuiltin, inits |-> <<>>, loaded |-> <<>>, panic |-> ""]

\* Most overlapping fptr_by_key calls on one lazy table.
MaxRequests == 2

Requests == 1..MaxRequests

\* The objects and typed pointers (Gd<T>) of a uniqueness check.
Objects == {"a", "b"}

\* MaxHandles: how many Gd pointers exist at once.
MaxHandles == 3

Handles == 1..MaxHandles

\* No object exists, no Gd points anywhere, NotUniqueError::check has not run.
NoGd ==
    [handles |-> [h \in Handles |-> "-"],
     count |-> [o \in Objects |-> 0],
     result |-> [kind |-> "-", object |-> "-", before |-> 0, after |-> 0,
                 reference_count |-> 0, returned |-> 0]]

\* Option<usize>.
None == <<"None">>

Some(n) == <<"Some", n>>

\* No enum has been handed to try_count_index_enum.
NoEnum ==
    [pc |-> "none", enum |-> [is_bitfield |-> FALSE, enumerators |-> <<>>],
     result |-> None]

\* A lazy table nobody has called yet: the RefCell is not borrowed, the map
\* is empty, the Host Resolver has not been invoked.
NoConc ==
    [borrowed |-> FALSE, cache |-> <<>>, resolver_log |-> <<>>,
     reqs |-> [r \in Requests |->
                 [pc |-> "idle", key |-> NoKey, saw_borrowed |-> FALSE, value |-> Null]]]

NoRet ==
    [op |-> "-", index |-> -1, key |-> NoKey, name |-> "-", hit |-> FALSE, value |-> Null]

Init ==
    /\ api \in ApiModels
    /\ strategy \in {"eager", "lazy"}
    /\ ctx = NewContext
    /\ tables = [t \in TableIds |-> [status |-> "none", info |-> NewIndexedMethodTable(t)]]
    /\ gen = [pc |-> "idle", table |-> "-", pos |-> 0, panic |-> ""]
    /\ rt = NoTable
    /\ ret = NoRet
    /\ calls = <<>>
    /\ lifecycle = NoLifecycle
    /\ conc = NoConc
    /\ en = NoEnum
    /\ gd = NoGd

\* The class tables are generated in the order of with_tables().
NextClassTable ==
    LET todo == {i \in 1..Len(with_tables) : tables[with_tables[i]].status = "none"}
    IN IF todo = {} THEN "-"
       ELSE with_tables[CHOOSE i \in todo : \A j \in todo : i <= j]

\* make_class_method_table, start: the empty table of the next API level.
BeginClassTable ==
    /\ gen.pc = "idle"
    /\ NextClassTable # "-"
    /\ gen' = [pc |-> "populating", table |-> NextClassTable, pos |-> 1, panic |-> ""]
    /\ tables' = [tables EXCEPT ![NextClassTable].status = "populating"]
    /\ UNCHANGED <<api, strategy, ctx, rt, ret, calls, lifecycle, conc, gd, en>>

\* Variant of the class iteration without the level filter: every class is
\* handed to every class table.
RemainingClasses_all_levels == gen.pos..Len(api.classes)

\* Positions, from gen.pos on, of the classes of the level being generated.
RemainingClasses ==
    {i \in gen.pos..Len(api.classes) : api.classes[i].api_level = gen.table}

\* Variant of the class iteration that takes the classes last to first.
NextClassPos_reversed(remaining) == CHOOSE k \in remaining : \A j \in remaining : k >= j

\* api.classes.iter().filter(..): the next class of this level, in model order.
NextClassPos(remaining) == CHOOSE k \in remaining : \A j \in remaining : k <= j

\* make_class_method_table, one iteration: populate_class_methods for the
\* next class of this API level.
PopulateClass ==
    /\ gen.pc = "populating"
    /\ gen.table \in LevelSet
    /\ RemainingClasses # {}
    /\ LET i == NextClassPos(RemainingClasses)
           r == populate_class_methods(tables[gen.table].info, api.classes[i], ctx)
       IN /\ tables' = [tables EXCEPT ![gen.table].info = r.table]
          /\ ctx' = r.ctx
          /\ gen' = [gen EXCEPT !.pos = i + 1]
    /\ UNCHANGED <<api, strategy, rt, ret, calls, lifecycle, conc, gd, en>>

\* generate_sys_classes_file generates its three tables in one loop, so the
\* builtin table is generated before that loop or after it.
OutsideClassLoop ==
    \/ \A l \in LevelSet : tables[l].status = "none"
    \/ \A l \in LevelSet : tables[l].status = "emitted"

\* make_builtin_method_table, start.
BeginBuiltinTable ==
    /\ gen.pc = "idle"
    /\ tables[BuiltinTable].status = "none"
    /\ OutsideClassLoop
    /\ gen' = [pc |-> "populating", table |-> BuiltinTable, pos |-> 1, panic |-> ""]
    /\ tables' = [tables EXCEPT ![BuiltinTable].status = "populating"]
    /\ UNCHANGED <<api, strategy, ctx, rt, ret, calls, lifecycle, conc, gd, en>>

\* make_builtin_method_table, one iteration: populate_builtin_methods.
PopulateBuiltin ==
    /\ gen.pc = "populating"
    /\ gen.table = BuiltinTable
    /\ gen.pos <= Len(api.builtins)
    /\ LET r == populate_builtin_methods(tables[BuiltinTable].info, api.builtins[gen.pos], ctx)
       IN /\ tables' = [tables EXCEPT ![BuiltinTable].info = r.table]
          /\ ctx' = r.ctx
          /\ gen' = [gen EXCEPT !.pos = gen.pos + 1]
    /\ UNCHANGED <<api, strategy, rt, ret, calls, lifecycle, conc, gd, en>>

\* Every owner of the table being generated has been populated.
PopulationDone ==
    /\ gen.pc = "populating"
    /\ IF gen.table = BuiltinTable
       THEN gen.pos > Len(api.builtins)
       ELSE RemainingClasses = {}

\* make_method_table: the table's code is emitted unless a check fails, and
\* a failed check aborts the generation run.
MakeMethodTable ==
    /\ PopulationDone
    /\ LET res == make_method_table(tables[gen.table].info, strategy)
       IN IF res = "ok"
          THEN /\ tables' = [tables EXCEPT ![gen.table].status = "emitted"]
               /\ gen' = [pc |-> "idle", table |-> "-", pos |-> 0, panic |-> ""]
          ELSE /\ tables' = [tables EXCEPT ![gen.table].status = "aborted"]
               /\ gen' = [gen EXCEPT !.pc = "aborted", !.panic = res]
    /\ UNCHANGED <<api, strategy, ctx, rt, ret, calls, lifecycle, conc, gd, en>>

(* ------------------------------------------------------------------------ *)
(* Runtime: the emitted tables in an extension process.                     *)
(* ------------------------------------------------------------------------ *)

\* The generation run completed: all four tables' code was emitted.
GenerationDone == \A t \in TableIds : tables[t].status = "emitted"

\* The members of table t the host may refuse: none, or one of them.
HostBadChoices(t) ==
    {{}} \cup {{<<k.owner, k.method_name, k.hash>>} : k \in CallSiteKeys(tables[t].info)}

\* Eager load(ctor_parameters) of table t; a panic of a loader ends it
\* without a table.
Load(t, bad) ==
    /\ GenerationDone
    /\ strategy = "eager"
    /\ rt.state = "none"
    /\ LET r == EagerLoad(api, bad, tables[t].info)
       IN rt' = [NoTable EXCEPT
                    !.state = IF r.panic = "" THEN "loaded" ELSE "failed",
                    !.table = t, !.host_bad = bad,
                    !.function_pointers = IF r.panic = "" THEN r.function_pointers ELSE <<>>,
                    !.fetched = r.fetched,
                    !.resolver_log = r.resolver_log,
                    !.events = r.events,
                    !.panic = r.panic]
    /\ ret' = NoRet
    /\ UNCHANGED <<api, strategy, ctx, tables, gen, calls, lifecycle, conc, gd, en>>

\* Lazy load() of table t: nothing is resolved; whatever the map holds when
\* load() returns was resolved inside load().
LazyLoad(t, bad) ==
    /\ GenerationDone
    /\ strategy = "lazy"
    /\ rt.state = "none"
    /\ rt' = [NoTable EXCEPT !.state = "loaded", !.table = t, !.host_bad = bad,
                             !.cache = LazyLoadCache(api, bad, tables[t].info),
                             !.resolver_log = DOMAIN LazyLoadCache(api, bad, tables[t].info)]
    /\ ret' = NoRet
    /\ UNCHANGED <<api, strategy, ctx, tables, gen, calls, lifecycle, conc, gd, en>>

\* The indices generated call sites pass to fptr_by_index: those the
\* allocator handed out in the table's category.
BakedIndices(t) ==
    {ctx.method_table_indices[k] :
        k \in {q \in DOMAIN ctx.method_table_indices : category(q) = TableCategory(t)}}

\* The pointer fptr_by_index reads: unchecked, so any outcome out of range.
IndexRead(fps, index) ==
    IF index < Len(fps) THEN {fps[index + 1]} ELSE UncheckedOutcomes

\* Variant of fptr_by_index that takes the pointer out of the vector
\* (Vec::remove) instead of copying it.
FptrByIndex_remove(index) ==
    /\ rt.state = "loaded"
    /\ strategy = "eager"
    /\ \E v \in IndexRead(rt.function_pointers, index) :
          ret' = [NoRet EXCEPT !.op = "fptr_by_index", !.index = index, !.value = v]
    /\ rt' = [rt EXCEPT !.function_pointers =
                 IF index < Len(@)
                 THEN SubSeq(@, 1, index) \o SubSeq(@, index + 2, Len(@))
                 ELSE @]
    /\ UNCHANGED <<api, strategy, ctx, tables, gen, calls, lifecycle, conc, gd, en>>

\* fptr_by_index(index) from a generated call site.
FptrByIndex(index) ==
    /\ rt.state = "loaded"
    /\ strategy = "eager"
    /\ \E v \in IndexRead(rt.function_pointers, index) :
          ret' = [NoRet EXCEPT !.op = "fptr_by_index", !.index = index, !.value = v]
    /\ UNCHANGED <<api, strategy, ctx, tables, gen, rt, calls, lifecycle, conc, gd, en>>

\* History: the (key, pointer) pairs fptr_by_key has returned to callers.
Returned(key, value) == IF IsPanic(value) THEN {} ELSE {<<key, value>>}

\* The keys generated call sites pass to the loaded lazy table.
LoadedCallSiteKeys ==
    IF rt.state = "loaded" /\ strategy = "lazy"
    THEN CallSiteKeys(tables[rt.table].info) ELSE {}

\* fptr_by_key(key) from a generated call site.
FptrByKey(key) ==
    /\ rt.state = "loaded"
    /\ strategy = "lazy"
    /\ LET r == fptr_by_key(api, rt.host_bad, rt.cache, key)
       IN /\ rt' = [rt EXCEPT !.cache = r.cache, !.requested = @ \cup {key},
                               !.returned = @ \cup Returned(key, r.value),
                               !.resolver_log = IF r.resolved THEN @ \cup {key} ELSE @]
          /\ ret' = [NoRet EXCEPT !.op = "fptr_by_key", !.key = key,
                                  !.hit = ~r.resolved, !.value = r.value]
    /\ UNCHANGED <<api, strategy, ctx, tables, gen, calls, lifecycle, conc, gd, en>>

\* A named accessor of the loaded table (make_named_accessors): the index
\* lookup or the key lookup with the accessor's baked index or key.
NamedAccessor(k) ==
    /\ rt.state = "loaded"
    /\ k \in 1..Len(tables[rt.table].info.named_accessors)
    /\ LET acc == tables[rt.table].info.named_accessors[k]
       IN IF strategy = "lazy"
          THEN LET r == fptr_by_key(api, rt.host_bad, rt.cache, acc.lazy_key)
               IN /\ rt' = [rt EXCEPT !.cache = r.cache, !.requested = @ \cup {acc.lazy_key},
                                       !.returned = @ \cup Returned(acc.lazy_key, r.value),
                                       !.resolver_log = IF r.resolved
                                                        THEN @ \cup {acc.lazy_key} ELSE @]
                  /\ ret' = [NoRet EXCEPT !.op = "accessor", !.name = acc.name,
                                          !.key = acc.lazy_key, !.hit = ~r.resolved,
                                          !.value = r.value]
          ELSE /\ \E v \in IndexRead(rt.function_pointers, acc.index) :
                     ret' = [NoRet EXCEPT !.op = "accessor", !.name = acc.name,
                                          !.index = acc.index, !.value = v]
               /\ rt' = rt
    /\ UNCHANGED <<api, strategy, ctx, tables, gen, calls, lifecycle, conc, gd, en>>

\* The tables load() can be called on: generation is complete and no table
\* has been constructed yet.
LoadableTables == IF GenerationDone /\ rt.state = "none" THEN TableIds ELSE {}

\* The indices and accessor positions callers of the loaded table may use.
LoadedIndices ==
    IF rt.state = "loaded" /\ strategy = "eager" THEN BakedIndices(rt.table) ELSE {}

LoadedAccessors ==
    IF rt.state = "loaded" THEN 1..Len(tables[rt.table].info.named_accessors) ELSE {}

(* ------------------------------------------------------------------------ *)
(* The allocator on its own: ctx.get_table_index(&MethodTableKey::from_..)  *)
(* called for arbitrary members in arbitrary order.                         *)
(* ------------------------------------------------------------------------ *)

AllocMethods == {m_a, m_b}

AllocClasses ==
    {[name |-> n, api_level |-> l, methods |-> <<>>] : n \in {"X", "Y"}, l \in LevelSet}

AllocBuiltins ==
    {[name |-> n, has_class |-> TRUE, methods |-> <<>>] : n \in {"Vec3", "Callable"}}

\* ctx.get_table_index(&MethodTableKey::from_class(class, method))
AllocateClassKey(class, method) ==
    /\ Len(calls) < MaxCalls
    /\ LET r == get_table_index(ctx, from_class(class, method))
       IN /\ ctx' = r.ctx
          /\ calls' = Append(calls, [kind |-> "class", level |-> class.api_level,
                                     owner |-> class.name, method |-> method.godot_name,
                                     index |-> r.index])
    /\ UNCHANGED <<api, strategy, tables, gen, rt, ret, lifecycle, conc, gd, en>>

\* ctx.get_table_index(&MethodTableKey::from_builtin(builtin_class, method))
AllocateBuiltinKey(builtin_class, method) ==
    /\ Len(calls) < MaxCalls
    /\ LET r == get_table_index(ctx, from_builtin(builtin_class, method))
       IN /\ ctx' = r.ctx
          /\ calls' = Append(calls, [kind |-> "builtin", level |-> "-",
                                     owner |-> builtin_class.name, method |-> method.godot_name,
                                     index |-> r.index])
    /\ UNCHANGED <<api, strategy, tables, gen, rt, ret, lifecycle, conc, gd, en>>

InitAlloc ==
    /\ Init
    /\ api = [classes |-> <<>>, builtins |-> <<>>]
    /\ strategy = "eager"

NextAlloc ==
    \/ \E class \in AllocClasses : \E method \in AllocMethods : AllocateClassKey(class, method)
    \/ \E b \in AllocBuiltins : \E method \in AllocMethods : AllocateBuiltinKey(b, method)

SpecAlloc == InitAlloc /\ [][NextAlloc]_vars

Next ==
    \/ BeginClassTable
    \/ PopulateClass
    \/ BeginBuiltinTable
    \/ PopulateBuiltin
    \/ MakeMethodTable
    \/ \E t \in LoadableTables : \E bad \in HostBadChoices(t) : Load(t, bad)
    \/ \E t \in LoadableTables : \E bad \in HostBadChoices(t) : LazyLoad(t, bad)
    \/ \E index \in LoadedIndices : FptrByIndex(index)
    \/ \E key \in LoadedCallSiteKeys : FptrByKey(key)
    \/ \E k \in LoadedAccessors : NamedAccessor(k)

Spec == Init /\ [][Next]_vars

(* ------------------------------------------------------------------------ *)
(* Properties.                                                              *)
(* ------------------------------------------------------------------------ *)

\* The member an allocator call was made for.
CallMember(e) == <<e.kind, e.level, e.owner, e.method>>

\* The category name of the member of an allocator call.
CallCategory(e) == IF e.kind = "class" THEN "class." \o e.level ELSE "builtin"

\* The distinct members of category c among the first n allocator calls.
MembersBefore(n, c) ==
    {CallMember(calls[i]) : i \in {k \in 1..n : CallCategory(calls[k]) = c}}

\* C1: an allocator call for a member that already has an index returns that
\* index and advances no counter; otherwise the call returns the number of
\* distinct members of the same category allocated before (0 for the first,
\* then the next unused integer), and every counter equals the number of
\* distinct members of its category.
C1_AllocateIdempotentAndDense ==
    /\ \A j \in 1..Len(calls) :
          LET e == calls[j]
              earlier == {i \in 1..(j - 1) : CallMember(calls[i]) = CallMember(e)}
          IN IF earlier # {}
             THEN \A i \in earlier : calls[i].index = e.index
             ELSE e.index = Cardinality(MembersBefore(j - 1, CallCategory(e)))
    /\ Len(calls) > 0 =>
          \A c \in Categories :
              ctx.method_table_next_index[c] = Cardinality(MembersBefore(Len(calls), c))

\* C1 witness: a member allocated twice in a row, then a new member of the
\* same category that gets index 1.
C1_Witness ==
    /\ Len(calls) = 3
    /\ CallMember(calls[1]) = CallMember(calls[2])
    /\ CallCategory(calls[3]) = CallCategory(calls[1])
    /\ CallMember(calls[3]) # CallMember(calls[1])
    /\ calls[3].index = 1

\* The keys of the allocator's map that belong to category c, by their fields.
KeysOfCategory(c, indices) ==
    {k \in DOMAIN indices :
        IF k.kind = "ClassMethod" THEN c = "class." \o k.api_level ELSE c = "builtin"}

\* C3: an allocator call for a member of one category leaves the counter
\* and every assigned index of every other category unchanged.
C3_CategoryIndependence ==
    [][calls' # calls =>
        LET e == calls'[Len(calls')]
        IN \A c \in Categories \ {CallCategory(e)} :
              /\ ctx'.method_table_next_index[c] = ctx.method_table_next_index[c]
              /\ KeysOfCategory(c, ctx'.method_table_indices)
                    = KeysOfCategory(c, ctx.method_table_indices)
              /\ \A k \in KeysOfCategory(c, ctx.method_table_indices) :
                    ctx'.method_table_indices[k] = ctx.method_table_indices[k]]_vars

\* C3 witness: allocations of two class levels and the builtin category
\* interleaved, the second key of the first category getting index 1.
C3_Witness ==
    /\ Len(calls) = 3
    /\ CallCategory(calls[1]) = "class.servers"
    /\ CallCategory(calls[2]) = "builtin"
    /\ CallCategory(calls[3]) = "class.servers"
    /\ calls[2].index = 0
    /\ calls[3].index = 1

\* The indices of a table's initializers, in group order.
InitIndexSeq(t) ==
    LET inits == AllInits(tables[t].info)
    IN [i \in 1..Len(inits) |-> inits[i].index]

\* Population of table t has finished (its code was emitted, or a build-time
\* check stopped the run).
Populated(t) == tables[t].status \in {"emitted", "aborted"}

\* C2: once a table is populated, the indices of its members are exactly
\* 0..method_count-1: none missing, none given to two members, and the
\* allocator's map of the table's category is a bijection onto that range.
C2_Bijection ==
    \A t \in TableIds :
        Populated(t) =>
            LET idx == InitIndexSeq(t)
                n == tables[t].info.method_count
                keys == KeysOfCategory(TableCategory(t), ctx.method_table_indices)
            IN /\ {idx[i] : i \in 1..Len(idx)} = 0..(n - 1)
               /\ \A i, j \in 1..Len(idx) : i # j => idx[i] # idx[j]
               /\ Len(idx) = n
               /\ {ctx.method_table_indices[k] : k \in keys} = 0..(n - 1)
               /\ \A k1, k2 \in keys :
                     k1 # k2 => ctx.method_table_indices[k1] # ctx.method_table_indices[k2]

\* C2 witness: the run is complete, one class table has three members and
\* the builtin table has at least one.
C2_Witness ==
    /\ GenerationDone
    /\ \E t \in LevelSet : tables[t].info.method_count = 3
    /\ tables[BuiltinTable].info.method_count >= 1

\* C4: in every emitted eager table the groups' initializer counts sum to
\* method_count, and when method_count > 0 the initializer with index
\* method_count-1 is the last initializer of the last group.
C4_Completeness ==
    \A t \in TableIds :
        (strategy = "eager" /\ tables[t].status = "emitted") =>
            LET info == tables[t].info
                groups == info.method_init_groups
                inits == AllInits(info)
            IN /\ SumInits(groups) = info.method_count
               /\ info.method_count > 0 =>
                     /\ groups # <<>>
                     /\ groups[Len(groups)].method_inits # <<>>
                     /\ LET last == groups[Len(groups)].method_inits
                        IN last[Len(last)].index = info.method_count - 1
               /\ \A i \in 1..Len(inits) : inits[i].index <= info.method_count - 1

\* C4 witness: an emitted eager table of three members in two groups.
C4_Witness ==
    /\ strategy = "eager"
    /\ \E t \in TableIds :
          /\ tables[t].status = "emitted"
          /\ tables[t].info.method_count = 3
          /\ Len(tables[t].info.method_init_groups) = 2

\* The hash the API model declares for the member a key stands for.
HashOfKey(k) ==
    LET hs == {m[3] : m \in {h \in HostMembers(api) : h[1] = k.ty /\ h[2] = k.method_name}}
    IN IF hs = {} THEN 0 ELSE CHOOSE h \in hs : TRUE

\* C5: after eager load() has returned, for every key K with index i in the
\* table's category, position i of the pointer sequence holds what the Host
\* Resolver returns for K's owner, member name and hash.
C5_ResolutionRoundTrip ==
    (strategy = "eager" /\ rt.state = "loaded") =>
        \A k \in KeysOfCategory(TableCategory(rt.table), ctx.method_table_indices) :
            LET i == ctx.method_table_indices[k]
            IN /\ i < Len(rt.function_pointers)
               /\ rt.function_pointers[i + 1]
                     = HostResolve(api, rt.host_bad, k.ty, k.method_name, HashOfKey(k))
               /\ rt.function_pointers[i + 1] # Null

\* C5 witness: a loaded eager table with three pointers from two groups.
C5_Witness ==
    /\ strategy = "eager"
    /\ rt.state = "loaded"
    /\ Len(rt.function_pointers) = 3
    /\ Len(tables[rt.table].info.method_init_groups) = 2

\* The indices the generator bakes into the code of table t: the allocator's
\* indices of the table's category and the named accessors' indices.
GeneratedIndices(t) ==
    BakedIndices(t) \cup
    {tables[t].info.named_accessors[k].index :
        k \in 1..Len(tables[t].info.named_accessors)}

\* C6: every index the generator bakes into the code of a loaded eager table
\* is below the length of its pointer sequence, and no read of such an index
\* has gone out of range.
C6_GeneratedIndicesInRange ==
    (strategy = "eager" /\ rt.state = "loaded") =>
        /\ \A i \in GeneratedIndices(rt.table) : i < Len(rt.function_pointers)
        /\ ret.op \in {"fptr_by_index", "accessor"} =>
              /\ ret.index < Len(rt.function_pointers)
              /\ ret.value = rt.function_pointers[ret.index + 1]

\* C6 witness: the highest index of a three-member table was read through a
\* named accessor.
C6_Witness ==
    /\ strategy = "eager"
    /\ rt.state = "loaded"
    /\ Len(rt.function_pointers) = 3
    /\ ret.op = "accessor"
    /\ ret.index = 2

\* C7: in a lazy table every pair of fptr_by_key results for equal keys is
\* the identical pointer, and the cache holds only keys that were passed to
\* fptr_by_key.
C7_LazyIdempotence ==
    strategy = "lazy" =>
        /\ \A p, q \in rt.returned : p[1] = q[1] => p[2] = q[2]
        /\ DOMAIN rt.cache \subseteq rt.requested
        /\ \A k \in DOMAIN rt.cache : <<k, rt.cache[k]>> \in rt.returned
        /\ (ret.op \in {"fptr_by_key", "accessor"} /\ ~IsPanic(ret.value)) =>
              <<ret.key, ret.value>> \in rt.returned

\* C7 witness: a second lookup of a key was served while another member of
\* the table has never been looked up.
C7_Witness ==
    /\ strategy = "lazy"
    /\ rt.state = "loaded"
    /\ ret.op = "fptr_by_key"
    /\ ret.hit
    /\ Cardinality(DOMAIN rt.cache) >= 2
    /\ \E k \in CallSiteKeys(tables[rt.table].info) : k \notin rt.requested

\* The initializer of the member that holds index i in table t.
InitOfIndex(t, i) ==
    LET inits == AllInits(tables[t].info)
    IN inits[CHOOSE n \in 1..Len(inits) : inits[n].index = i]

\* The accessor entry the last accessor call went through.
LastAccessor ==
    LET accs == tables[rt.table].info.named_accessors
    IN accs[CHOOSE n \in 1..Len(accs) : accs[n].name = ret.name]

\* C8: a named accessor returns what the generic lookup for the same member
\* returns: fptr_by_index of the member's index (eager), fptr_by_key of the
\* member's call-site key (lazy).
C8_AccessorEquivalence ==
    (rt.state = "loaded" /\ ret.op = "accessor") =>
        LET mi == InitOfIndex(rt.table, LastAccessor.index).method_init
        IN IF strategy = "eager"
           THEN ret.value \in IndexRead(rt.function_pointers, LastAccessor.index)
           ELSE ret.value
                  = fptr_by_key(api, rt.host_bad, rt.cache, CallSiteKey(mi)).value

\* The outbound members of the classes of level l, in model order.
ExpectedClassMembers(l) ==
    LET OfClass(c) ==
            LET F[i \in 0..Len(c.methods)] ==
                    IF i = 0 THEN <<>>
                    ELSE IF c.methods[i].outbound
                         THEN Append(F[i - 1], <<c.name, c.methods[i].godot_name>>)
                         ELSE F[i - 1]
            IN F[Len(c.methods)]
        G[n \in 0..Len(api.classes)] ==
            IF n = 0 THEN <<>>
            ELSE IF api.classes[n].api_level = l
                 THEN G[n - 1] \o OfClass(api.classes[n])
                 ELSE G[n - 1]
    IN G[Len(api.classes)]

\* The classes of level l that declare an outbound method.
ContributingClasses(l) ==
    {n \in 1..Len(api.classes) :
        /\ api.classes[n].api_level = l
        /\ \E i \in 1..Len(api.classes[n].methods) : api.classes[n].methods[i].outbound}

\* C9: a class table's members are the outbound methods of its level's
\* classes, owners in model order and members in declaration order, with
\* indices 0, 1, 2, ...; METHOD_COUNT is their number, CLASS_COUNT the number
\* of contributing classes, and eager load() fills the positions with the
\* members' resolutions in that order.
C9_ModelOrder ==
    \A l \in LevelSet :
        tables[l].status = "emitted" =>
            LET exp == ExpectedClassMembers(l)
                inits == AllInits(tables[l].info)
            IN /\ Len(inits) = Len(exp)
               /\ \A i \in 1..Len(exp) :
                     /\ inits[i].index = i - 1
                     /\ <<inits[i].method_init.owner, inits[i].method_init.method_name>> = exp[i]
                     /\ ctx.method_table_indices[
                            [kind |-> "ClassMethod", api_level |-> l,
                             ty |-> exp[i][1], method_name |-> exp[i][2]]] = i - 1
               /\ tables[l].info.method_count = Len(exp)
               /\ tables[l].info.class_count = Cardinality(ContributingClasses(l))
               /\ (strategy = "eager" /\ rt.state = "loaded" /\ rt.table = l) =>
                     rt.function_pointers = exp

\* C9 witness: X (a, b) and Y (c) of level scene, loaded.
C9_Witness ==
    /\ api.classes = << [name |-> "X", api_level |-> "scene", methods |-> <<m_a, m_b>>],
                        [name |-> "Y", api_level |-> "scene", methods |-> <<m_c>>] >>
    /\ strategy = "eager"
    /\ rt.state = "loaded"
    /\ rt.table = "scene"
    /\ rt.function_pointers = << <<"X", "a">>, <<"X", "b">>, <<"Y", "c">> >>
    /\ tables["scene"].info.method_count = 3
    /\ tables["scene"].info.class_count = 2

\* The initializers of table t the host does not resolve.
Unresolvable(t, bad) ==
    LET inits == AllInits(tables[t].info)
    IN {i \in 1..Len(inits) :
          HostResolve(api, bad, inits[i].method_init.owner,
                      inits[i].method_init.method_name, inits[i].method_init.hash) = Null}

\* C10: when the host fails for a member, eager load() yields no table, and
\* a lazy lookup of that member's key fails and leaves no entry for the key;
\* no null pointer is stored in a table or returned to a caller.
C10_ResolutionFailureFatal ==
    /\ (strategy = "eager" /\ rt.state = "loaded") =>
          /\ Unresolvable(rt.table, rt.host_bad) = {}
          /\ Len(rt.function_pointers) = Len(AllInits(tables[rt.table].info))
          /\ \A i \in 1..Len(rt.function_pointers) : rt.function_pointers[i] # Null
    /\ (strategy = "eager" /\ rt.state = "failed") =>
          /\ Unresolvable(rt.table, rt.host_bad) # {}
          /\ rt.function_pointers = <<>>
          /\ rt.panic # ""
    /\ strategy = "lazy" =>
          /\ \A k \in DOMAIN rt.cache :
                /\ rt.cache[k] # Null
                /\ HostResolve(api, rt.host_bad, k.owner, k.method_name, k.hash) # Null
          /\ (ret.op \in {"fptr_by_key", "accessor"}
              /\ HostResolve(api, rt.host_bad, ret.key.owner, ret.key.method_name,
                             ret.key.hash) = Null) =>
                /\ IsPanic(ret.value)
                /\ ret.key \notin DOMAIN rt.cache
    /\ ret.op # "-" => ret.value # Null

\* C10 witness (eager): load() failed on a table of several members of
\* which the host refuses one.
C10_Witness ==
    /\ strategy = "eager"
    /\ rt.state = "failed"
    /\ rt.host_bad # {}
    /\ Len(AllInits(tables[rt.table].info)) >= 2

\* A lazy lookup of a refused member failed after another member had been
\* cached.
C10_LazyFailureReached ==
    /\ strategy = "lazy"
    /\ ret.op = "fptr_by_key"
    /\ <<ret.key.owner, ret.key.method_name, ret.key.hash>> \in rt.host_bad
    /\ IsPanic(ret.value)
    /\ DOMAIN rt.cache # {}

(* ------------------------------------------------------------------------ *)
(* C11: named accessors and the Special-Case Policy.                        *)
(* ------------------------------------------------------------------------ *)

\* The members of the API model that are eligible for table t: the outbound
\* methods of the classes of a level, the methods of the builtins that have
\* a builtin class.
EligibleMembers(t) ==
    IF t = BuiltinTable
    THEN UNION {{[kind |-> "BuiltinMethod", api_level |-> "-",
                  owner |-> api.builtins[i].name, method |-> api.builtins[i].methods[j]] :
                    j \in 1..Len(api.builtins[i].methods)} :
                i \in {k \in 1..Len(api.builtins) : api.builtins[k].has_class}}
    ELSE UNION {{[kind |-> "ClassMethod", api_level |-> t,
                  owner |-> api.classes[i].name, method |-> api.classes[i].methods[j]] :
                    j \in {k \in 1..Len(api.classes[i].methods) :
                             api.classes[i].methods[k].outbound}} :
                i \in {k \in 1..Len(api.classes) : api.classes[k].api_level = t}}

\* The allocator key of an eligible member.
MemberKey(m) ==
    [kind |-> m.kind, api_level |-> m.api_level, ty |-> m.owner,
     method_name |-> m.method.godot_name]

\* The eligible members of t the Special-Case Policy answers true for.
PolicyMembers(t) ==
    {m \in EligibleMembers(t) : <<m.owner, m.method.godot_name>> \in NamedAccessorAllowList}

\* C11: an emitted table has a named accessor for a member exactly when the
\* member is eligible for the table and the Special-Case Policy answers true
\* for (owner, member), one accessor per such member; every eligible member,
\* also one the policy answers false for, has an index and an initializer,
\* and the generic lookup of the loaded table returns its pointer unless the
\* host refuses the member.
C11_AccessorIffPolicy ==
    \A t \in TableIds :
        tables[t].status = "emitted" =>
            LET accs == tables[t].info.named_accessors
                inits == AllInits(tables[t].info)
                eligible == EligibleMembers(t)
                requested == PolicyMembers(t)
            IN /\ {accs[k].name : k \in 1..Len(accs)}
                    = {to_snake_case(m.owner) \o "__" \o m.method.godot_name :
                          m \in requested}
               /\ Len(accs) = Cardinality(requested)
               /\ \A m \in eligible :
                     /\ MemberKey(m) \in DOMAIN ctx.method_table_indices
                     /\ \E i \in 1..Len(inits) :
                           /\ inits[i].index = ctx.method_table_indices[MemberKey(m)]
                           /\ inits[i].method_init.owner = m.owner
                           /\ inits[i].method_init.method_name = m.method.godot_name
                           /\ inits[i].method_init.hash = m.method.hash
                     /\ (rt.state = "loaded" /\ rt.table = t
                         /\ <<m.owner, m.method.godot_name, m.method.hash>> \notin rt.host_bad) =>
                           IF strategy = "eager"
                           THEN rt.function_pointers[ctx.method_table_indices[MemberKey(m)] + 1]
                                  = <<m.owner, m.method.godot_name>>
                           ELSE fptr_by_key(api, rt.host_bad, rt.cache,
                                            [owner |-> m.owner,
                                             method_name |-> m.method.godot_name,
                                             hash |-> m.method.hash]).value
                                  = <<m.owner, m.method.godot_name>>

\* C11 witness: class X has a (accessor requested) and b (not requested);
\* the scene table has exactly the accessor x__a, and the generic lookup of
\* b returned b's pointer.
C11_Witness ==
    /\ rt.state = "loaded"
    /\ rt.table = "scene"
    /\ Len(api.classes) = 1
    /\ api.classes[1].methods = <<m_a, m_b>>
    /\ Len(tables["scene"].info.named_accessors) = 1
    /\ tables["scene"].info.named_accessors[1].name = "x__a"
    /\ ret.op \in {"fptr_by_index", "fptr_by_key"}
    /\ ret.value = <<"X", "b">>

(* ------------------------------------------------------------------------ *)
(* Generation and loading of the lifecycle entries of one builtin variant.  *)
(* ------------------------------------------------------------------------ *)

\* make_builtin_lifecycle_table, one iteration of its loop: make_variant_fns
\* for the variant; a panic ends the generation run.
MakeVariantFns ==
    /\ lifecycle.pc = "start"
    /\ LET r == make_variant_fns(api, lifecycle.builtin)
       IN lifecycle' = [lifecycle EXCEPT
                           !.pc = IF r.panic = "" THEN "emitted" ELSE "aborted",
                           !.inits = r.inits,
                           !.panic = r.panic]
    /\ UNCHANGED <<api, strategy, ctx, tables, gen, rt, ret, calls, conc, gd, en>>

\* load() of the emitted lifecycle table.
LoadLifecycleTable ==
    /\ lifecycle.pc = "emitted"
    /\ LET r == LoadLifecycle(lifecycle.builtin, lifecycle.inits)
       IN lifecycle' = [lifecycle EXCEPT
                           !.pc = IF r.panic = "" THEN "loaded" ELSE "load_failed",
                           !.loaded = r.loaded,
                           !.panic = r.panic]
    /\ UNCHANGED <<api, strategy, ctx, tables, gen, rt, ret, calls, conc, gd, en>>

InitLifecycle ==
    /\ api = LifecycleApi
    /\ strategy = "eager"
    /\ ctx = NewContext
    /\ tables = [t \in TableIds |-> [status |-> "none", info |-> NewIndexedMethodTable(t)]]
    /\ gen = [pc |-> "idle", table |-> "-", pos |-> 0, panic |-> ""]
    /\ rt = NoTable
    /\ ret = NoRet
    /\ calls = <<>>
    /\ lifecycle \in {[NoLifecycle EXCEPT !.pc = "start", !.builtin = b] :
                         b \in LifecycleVariants}
    /\ conc = NoConc
    /\ en = NoEnum
    /\ gd = NoGd

NextLifecycle == MakeVariantFns \/ LoadLifecycleTable

SpecLifecycle == InitLifecycle /\ [][NextLifecycle]_vars

(* ------------------------------------------------------------------------ *)
(* C12, C19: the constructors of a builtin value type.                      *)
(* ------------------------------------------------------------------------ *)

\* The emitted constructor entries, in order.
ConstructorInits ==
    SelectSeq(lifecycle.inits, LAMBDA e : e.getter = "get_construct_fn")

\* The entry point name of an extra constructor of Vec3 with parameters ps.
ExpectedExtraName(ps) ==
    CASE ps = <<Param("from", "Vec3")>> -> "vec3_from_vec3"
      [] ps = <<Param("from", "Vec3i")>> -> "vec3_from_vec3i"
      [] ps = <<Param("x", "Vec3i")>> -> "vec3_from_x"
      [] ps = <<Param("x", "float"), Param("y", "float")>> -> "vec3_from_x_y"
      [] ps = <<Param("from", "Vec3"), Param("y", "float")>> -> "vec3_from_from_y"
      [] OTHER -> "?"

\* C12: when code was emitted for a builtin with a non-empty constructor
\* list, there is one constructor entry per declared constructor, in
\* declaration order: the first is <type>_construct_default resolved with
\* index 0, the second <type>_construct_copy with index 1, and the entry of
\* a further constructor at position i >= 2 is resolved with index i and
\* named <type>_from_<source type> for a single parameter named "from",
\* <type>_from_<parameter names joined by '_'> otherwise; load() stores the
\* host's constructor of that index under that name.
C12_ConstructorIndices ==
    (lifecycle.pc \in {"emitted", "loaded"} /\ lifecycle.builtin.constructors # <<>>) =>
        LET cs == lifecycle.builtin.constructors
            es == ConstructorInits
        IN /\ Len(es) = Len(cs)
           /\ es[1] = LifecycleInit("vec3_construct_default", "get_construct_fn", 0)
           /\ es[2] = LifecycleInit("vec3_construct_copy", "get_construct_fn", 1)
           /\ \A n \in 3..Len(cs) :
                 /\ es[n].arg = n - 1
                 /\ es[n].name = ExpectedExtraName(cs[n].raw_parameters)
           /\ lifecycle.pc = "loaded" =>
                 \A n \in 1..Len(es) :
                     \E k \in 1..Len(lifecycle.loaded) :
                         /\ lifecycle.loaded[k].name = es[n].name
                         /\ lifecycle.loaded[k].fptr
                              = <<"Vec3", "constructor " \o ToString(n - 1)>>

\* C12 witness: Vec3 with [default, copy, from Vec3i] was generated and
\* loaded; the third entry is vec3_from_vec3i with index 2.
C12_Witness ==
    /\ lifecycle.pc = "loaded"
    /\ lifecycle.builtin.constructors
         = <<[index |-> 0, raw_parameters |-> <<>>],
             [index |-> 1, raw_parameters |-> <<Param("from", "Vec3")>>],
             [index |-> 2, raw_parameters |-> <<Param("from", "Vec3i")>>]>>
    /\ [n \in 1..3 |-> ConstructorInits[n].name]
         = <<"vec3_construct_default", "vec3_construct_copy", "vec3_from_vec3i">>
    /\ ConstructorInits[3].arg = 2

\* A non-empty constructor list that violates the expected layout.
MalformedConstructors(owner, cs) ==
    \/ \E n \in 1..Len(cs) : cs[n].index # n - 1
    \/ cs[1].raw_parameters # <<>>
    \/ Len(cs) < 2
    \/ /\ Len(cs) >= 2
       /\ cs[2].raw_parameters # <<Param("from", owner)>>
    \/ \E n \in 3..Len(cs) : cs[n].raw_parameters = <<>>

\* C19: for a builtin class with a non-empty constructor list, generation
\* has aborted, with no lifecycle entry emitted, exactly when the list is
\* malformed: an entry's declared index differs from its position, entry 0
\* has parameters, entry 1 is missing or is not a single parameter "from"
\* of the owner's type, or an entry from position 2 on has no parameters.
C19_ConstructorIntegrity ==
    (lifecycle.pc # "start" /\ lifecycle.pc # "none"
     /\ lifecycle.builtin.constructors # <<>>) =>
        /\ (lifecycle.pc = "aborted")
             <=> MalformedConstructors(lifecycle.builtin.name, lifecycle.builtin.constructors)
        /\ lifecycle.pc = "aborted" =>
              /\ lifecycle.inits = <<>>
              /\ lifecycle.loaded = <<>>
              /\ lifecycle.panic # ""
        /\ lifecycle.pc # "aborted" => Len(ConstructorInits) = Len(lifecycle.builtin.constructors)

\* C19 witness: [default, copy, a third constructor without parameters]
\* aborted in make_extra_constructors.
C19_Witness ==
    /\ lifecycle.pc = "aborted"
    /\ Len(lifecycle.builtin.constructors) = 3
    /\ \A n \in 1..3 : lifecycle.builtin.constructors[n].index = n - 1
    /\ lifecycle.builtin.constructors[2].raw_parameters = <<Param("from", "Vec3")>>
    /\ lifecycle.builtin.constructors[3].raw_parameters = <<>>
    /\ lifecycle.panic = "custom constructors must have at least 1 parameter"

(* ------------------------------------------------------------------------ *)
(* C13: the declared owner count.                                           *)
(* ------------------------------------------------------------------------ *)

\* The groups of table t that hold at least one initializer.
ContributingGroups(t) ==
    {g \in 1..Len(tables[t].info.method_init_groups) :
        tables[t].info.method_init_groups[g].method_inits # <<>>}

ClassBearingBuiltins == {i \in 1..Len(api.builtins) : api.builtins[i].has_class}

C14_NoEmptyGroup ==
    \A t \in TableIds :
        tables[t].status = "emitted" =>
            \A g \in 1..Len(tables[t].info.method_init_groups) :
                /\ tables[t].info.method_init_groups[g].method_inits # <<>>
                /\ tables[t].info.method_init_groups[g].method_inits = <<>> =>
                      tables[t].info.method_init_groups[g].class_var_init = ""

(* ------------------------------------------------------------------------ *)
(* C15: virtual methods.                                                    *)
(* ------------------------------------------------------------------------ *)

\* The virtual (non-outbound) methods of the API model, as (class, method).
VirtualMethods ==
    UNION {{<<api.classes[i], api.classes[i].methods[j]>> :
               j \in {k \in 1..Len(api.classes[i].methods) :
                        ~api.classes[i].methods[k].outbound}} :
           i \in 1..Len(api.classes)}

\* C15: a virtual class method never has an index in the allocator, an
\* initializer or a named accessor in any table, and the member count of a
\* populated class table is the number of outbound methods of the classes
\* of its level.
C15_VirtualExcluded ==
    /\ LET virtual == VirtualMethods
       IN /\ \A v \in virtual :
                from_class(v[1], v[2]) \notin DOMAIN ctx.method_table_indices
          /\ \A t \in TableIds :
                LET inits == AllInits(tables[t].info)
                    accs == tables[t].info.named_accessors
                IN \A v \in virtual :
                      /\ \A i \in 1..Len(inits) :
                            ~(/\ inits[i].method_init.owner = v[1].name
                              /\ inits[i].method_init.method_name
                                    \in {v[2].godot_name, v[2].name})
                      /\ \A k \in 1..Len(accs) :
                            accs[k].name # to_snake_case(v[1].name) \o "__" \o v[2].godot_name
    /\ \A l \in LevelSet :
          Populated(l) =>
              LET outbound == Cardinality(EligibleMembers(l))
              IN /\ tables[l].info.method_count = outbound
                 /\ Len(AllInits(tables[l].info)) = outbound

\* C15 witness: class X declares a and the virtual _v, for which the policy
\* asks an accessor too; the loaded scene table has one member.
C15_Witness ==
    /\ Len(api.classes) >= 1
    /\ api.classes[1].methods = <<m_a, m_v>>
    /\ rt.state = "loaded"
    /\ rt.table = "scene"
    /\ tables["scene"].info.method_count = 1
    /\ is_named_accessor_in_table("X", m_v.godot_name)
    /\ Len(tables["scene"].info.named_accessors) = 1

(* ------------------------------------------------------------------------ *)
(* Overlapping fptr_by_key calls on one lazy table (RefCell<InnerTable>).   *)
(* ------------------------------------------------------------------------ *)

\* The API model the lazy table of the overlapping calls was generated from.
ConcApi ==
    [classes |-> <<[name |-> "X", api_level |-> "scene", methods |-> <<m_a, m_b>>]>>,
     builtins |-> <<>>]

\* The keys generated call sites pass to that table.
ConcKeys ==
    {[owner |-> h[1], method_name |-> h[2], hash |-> h[3]] : h \in HostMembers(ConcApi)}

\* A caller enters fptr_by_key(key).
CallFptrByKey(r, key) ==
    /\ conc.reqs[r].pc = "idle"
    /\ conc' = [conc EXCEPT !.reqs[r].pc = "borrow_mut", !.reqs[r].key = key]
    /\ UNCHANGED <<api, strategy, ctx, tables, gen, rt, ret, calls, lifecycle, gd, en>>

\* self.inner.borrow_mut(), first half: the borrow flag is read.  The flag
\* is a plain Cell, so the read and the write below are separate steps.
BorrowMutRead(r) ==
    /\ conc.reqs[r].pc = "borrow_mut"
    /\ conc' = [conc EXCEPT !.reqs[r].pc = "borrow_mut_set",
                            !.reqs[r].saw_borrowed = conc.borrowed]
    /\ UNCHANGED <<api, strategy, ctx, tables, gen, rt, ret, calls, lifecycle, gd, en>>

\* self.inner.borrow_mut(), second half: a flag seen as borrowed is the
\* panic "already borrowed"; otherwise the flag is set and the guard held.
BorrowMutSet(r) ==
    /\ conc.reqs[r].pc = "borrow_mut_set"
    /\ IF conc.reqs[r].saw_borrowed
       THEN conc' = [conc EXCEPT !.reqs[r].pc = "panicked",
                                 !.reqs[r].value = <<"panic", "already borrowed: BorrowMutError">>]
       ELSE conc' = [conc EXCEPT !.borrowed = TRUE, !.reqs[r].pc = "entry"]
    /\ UNCHANGED <<api, strategy, ctx, tables, gen, rt, ret, calls, lifecycle, gd, en>>

\* function_pointers.entry(key): an occupied entry yields the cached
\* pointer, a vacant one runs the initializer.
Entry(r) ==
    /\ conc.reqs[r].pc = "entry"
    /\ IF conc.reqs[r].key \in DOMAIN conc.cache
       THEN conc' = [conc EXCEPT !.reqs[r].pc = "release",
                                 !.reqs[r].value = conc.cache[conc.reqs[r].key]]
       ELSE conc' = [conc EXCEPT !.reqs[r].pc = "resolving"]
    /\ UNCHANGED <<api, strategy, ctx, tables, gen, rt, ret, calls, lifecycle, gd, en>>

\* or_insert_with(lazy_method_init): the Host Resolver is called and the
\* pointer inserted; a panic of the loader unwinds and drops the guard.
Resolve(r) ==
    /\ conc.reqs[r].pc = "resolving"
    /\ LET key == conc.reqs[r].key
           p == load_method(ConcApi, {}, key.owner, key.method_name, key.hash)
       IN conc' = IF IsPanic(p)
                  THEN [conc EXCEPT !.resolver_log = Append(@, key),
                                    !.borrowed = FALSE,
                                    !.reqs[r].pc = "panicked", !.reqs[r].value = p]
                  ELSE [conc EXCEPT !.resolver_log = Append(@, key),
                                    !.cache = (key :> p) @@ @,
                                    !.reqs[r].pc = "release", !.reqs[r].value = p]
    /\ UNCHANGED <<api, strategy, ctx, tables, gen, rt, ret, calls, lifecycle, gd, en>>

\* The guard is dropped and the pointer returned.
Release(r) ==
    /\ conc.reqs[r].pc = "release"
    /\ conc' = [conc EXCEPT !.borrowed = FALSE, !.reqs[r].pc = "returned"]
    /\ UNCHANGED <<api, strategy, ctx, tables, gen, rt, ret, calls, lifecycle, gd, en>>

InitConc ==
    /\ api = ConcApi
    /\ strategy = "lazy"
    /\ ctx = NewContext
    /\ tables = [t \in TableIds |-> [status |-> "none", info |-> NewIndexedMethodTable(t)]]
    /\ gen = [pc |-> "idle", table |-> "-", pos |-> 0, panic |-> ""]
    /\ rt = NoTable
    /\ ret = NoRet
    /\ calls = <<>>
    /\ lifecycle = NoLifecycle
    /\ conc = NoConc
    /\ en = NoEnum
    /\ gd = NoGd

NextConc ==
    \/ \E r \in Requests : \E key \in ConcKeys : CallFptrByKey(r, key)
    \/ \E r \in Requests : BorrowMutRead(r)
    \/ \E r \in Requests : BorrowMutSet(r)
    \/ \E r \in Requests : Entry(r)
    \/ \E r \in Requests : Resolve(r)
    \/ \E r \in Requests : Release(r)

SpecConc == InitConc /\ [][NextConc]_vars

\* How often the Host Resolver was invoked for key.
ResolverCalls(key) ==
    Cardinality({i \in 1..Len(conc.resolver_log) : conc.resolver_log[i] = key})

\* C16: with overlapping fptr_by_key calls on one lazy table whose members
\* the host resolves, no call fails, the Host Resolver is invoked at most
\* once per key, and calls that returned for the same key returned the same
\* pointer, the one in the cache.
C16_LazyConcurrentLookup ==
    /\ \A r \in Requests : conc.reqs[r].pc # "panicked"
    /\ \A key \in ConcKeys : ResolverCalls(key) <= 1
    /\ \A r1, r2 \in Requests :
          (/\ conc.reqs[r1].pc = "returned"
           /\ conc.reqs[r2].pc = "returned"
           /\ conc.reqs[r1].key = conc.reqs[r2].key) =>
              /\ conc.reqs[r1].value = conc.reqs[r2].value
              /\ conc.reqs[r1].value = conc.cache[conc.reqs[r1].key]

\* Two calls for the same key overlapped and the second one panicked in
\* borrow_mut while the first was inside the resolver call.
C16_SecondCallPanics ==
    /\ conc.reqs[1].pc = "resolving"
    /\ conc.reqs[2].pc = "panicked"
    /\ conc.reqs[1].key = conc.reqs[2].key

\* Two calls for the same key both passed borrow_mut and the Host Resolver
\* was invoked twice for the key.
C16_ResolvedTwice ==
    /\ conc.reqs[1].key = conc.reqs[2].key
    /\ ResolverCalls(conc.reqs[1].key) = 2

(* ------------------------------------------------------------------------ *)
(* C17: lazy construction resolves nothing.                                 *)
(* ------------------------------------------------------------------------ *)

\* C17: when the lazy load() has returned and no lookup was made yet, the
\* key-to-pointer map is empty and the Host Resolver was not invoked; at
\* any later time the Host Resolver was invoked only for keys that were
\* passed to fptr_by_key, and a member whose key was never passed has no
\* entry.
C17_LazyDefersResolution ==
    (strategy = "lazy" /\ rt.state = "loaded") =>
        /\ ret.op = "-" =>
              /\ rt.cache = <<>>
              /\ rt.resolver_log = {}
              /\ rt.requested = {}
        /\ rt.resolver_log \subseteq rt.requested
        /\ DOMAIN rt.cache \subseteq rt.resolver_log
        /\ \A k \in CallSiteKeys(tables[rt.table].info) :
              k \notin rt.requested => k \notin DOMAIN rt.cache

\* C17 witness: the lazy load() of a table of three members has returned
\* and nothing was looked up yet.
C17_Witness ==
    /\ strategy = "lazy"
    /\ rt.state = "loaded"
    /\ ret.op = "-"
    /\ Cardinality(CallSiteKeys(tables[rt.table].info)) = 3
    /\ rt.cache = <<>>

\* A first lookup has resolved one member of a lazy table of three members
\* and left the others unresolved.
C17_FirstLookupReached ==
    /\ strategy = "lazy"
    /\ rt.state = "loaded"
    /\ ret.op = "fptr_by_key"
    /\ Cardinality(CallSiteKeys(tables[rt.table].info)) = 3
    /\ rt.resolver_log = {ret.key}
    /\ DOMAIN rt.cache = {ret.key}

(* ------------------------------------------------------------------------ *)
(* C18: accessor requests for members the model does not have.              *)
(* ------------------------------------------------------------------------ *)

\* The (owner, member) pairs the Special-Case Policy requests an accessor
\* for that are not among the eligible members of any table.
UnmatchedPolicyRequests ==
    {q \in NamedAccessorAllowList :
        ~\E t \in TableIds : \E m \in EligibleMembers(t) :
            m.owner = q[1] /\ m.method.godot_name = q[2]}

\* C18: a generation run in which the Special-Case Policy requests an
\* accessor for a pair that is not an eligible member does not complete:
\* when all tables have been emitted, no such request exists.
C18_UnmatchedRequestFailsGeneration ==
    GenerationDone => UnmatchedPolicyRequests = {}

(* ------------------------------------------------------------------------ *)
(* C20: the build-time checks of the eager table.                           *)
(* ------------------------------------------------------------------------ *)

\* One of the three checks fails on a descriptor: the initializers of all
\* groups are not member_count many, or groups exist and the last
\* initializer's index is not member_count - 1, or no group exists and
\* member_count is not 0.
BuildCheckFails(info) ==
    LET inits == AllInits(info)
    IN \/ Len(inits) # info.method_count
       \/ /\ info.method_init_groups # <<>>
          /\ inits # <<>>
          /\ inits[Len(inits)].index # info.method_count - 1
       \/ /\ info.method_init_groups = <<>>
          /\ info.method_count # 0

\* C20: generating an eager table has aborted, with no table code emitted,
\* exactly when one of the three checks fails on its descriptor; otherwise
\* the table code was emitted.
C20_EagerBuildChecks ==
    \A t \in TableIds :
        (strategy = "eager" /\ Populated(t)) =>
            /\ (tables[t].status = "aborted") <=> BuildCheckFails(tables[t].info)
            /\ (tables[t].status = "emitted") <=> ~BuildCheckFails(tables[t].info)

(* ------------------------------------------------------------------------ *)
(* C21: the order of the eager load().                                      *)
(* ------------------------------------------------------------------------ *)

\* The positions of rt.events at which the Host Resolver was called, and
\* those at which the String Cache was asked for an owner name.
ResolveEvents == {e \in 1..Len(rt.events) : rt.events[e][1] = "resolve"}

StringCacheEvents == {e \in 1..Len(rt.events) : rt.events[e][1] = "string_cache"}

\* C21: eager load() runs the groups in registration order: the Host
\* Resolver calls are the table's initializers in group and initializer
\* order (all of them when load() returned, a prefix when it panicked), the
\* pointers are appended in that order, and in a class table the String
\* Cache is asked for an owner's name exactly once per owner that has
\* initializers, before the first Host Resolver call for that owner.
C21_EagerLoadOrder ==
    (strategy = "eager" /\ rt.state \in {"loaded", "failed"}) =>
        LET inits == AllInits(tables[rt.table].info)
            resolves == ResolveEvents
            fetches == StringCacheEvents
        IN /\ Cardinality(resolves) <= Len(inits)
           /\ rt.state = "loaded" => Cardinality(resolves) = Len(inits)
           /\ \A e \in resolves :
                 LET n == Cardinality({d \in resolves : d <= e})
                 IN /\ rt.events[e][2] = inits[n].method_init.owner
                    /\ rt.events[e][3] = inits[n].method_init.method_name
                    /\ rt.state = "loaded" =>
                          rt.function_pointers[n]
                            = <<inits[n].method_init.owner, inits[n].method_init.method_name>>
           /\ rt.table \in LevelSet =>
                 /\ \A e \in resolves :
                       \E f \in fetches :
                          /\ f < e
                          /\ rt.events[f][2] = rt.events[e][2]
                 /\ \A f, g \in fetches :
                       rt.events[f][2] = rt.events[g][2] => f = g
                 /\ \A f \in fetches :
                       /\ f < Len(rt.events)
                       /\ rt.events[f + 1][1] = "resolve"
                       /\ rt.events[f + 1][2] = rt.events[f][2]

\* C21 witness: the scene table of X (a, b) and Y was loaded eagerly: the
\* String Cache was asked for X and for Y once each, and three or more
\* members were resolved.
C21_Witness ==
    /\ strategy = "eager"
    /\ rt.state = "loaded"
    /\ rt.table = "scene"
    /\ Len(tables["scene"].info.method_init_groups) = 2
    /\ Len(tables["scene"].info.method_init_groups[1].method_inits) = 2
    /\ rt.fetched = <<"X", "Y">>
    /\ Cardinality(ResolveEvents) >= 3
    /\ Cardinality(StringCacheEvents) = 2

(* ------------------------------------------------------------------------ *)
(* C22: the eager table after load().                                       *)
(* ------------------------------------------------------------------------ *)

\* C22: once the eager load() has returned, no step (fptr_by_index or a
\* named accessor) changes the pointer sequence or its length, and none
\* calls the Host Resolver or the String Cache again.
C22_EagerImmutable ==
    [][(strategy = "eager" /\ rt.state = "loaded") =>
          /\ rt'.state = "loaded"
          /\ rt'.table = rt.table
          /\ rt'.function_pointers = rt.function_pointers
          /\ Len(rt'.function_pointers) = Len(rt.function_pointers)
          /\ rt'.events = rt.events
          /\ rt'.resolver_log = rt.resolver_log
          /\ rt'.fetched = rt.fetched]_vars

\* C22 witness: a named accessor of a loaded eager table with two or more
\* pointers has returned a pointer, and the table still holds the pointers
\* load() pushed.
C22_Witness ==
    /\ strategy = "eager"
    /\ rt.state = "loaded"
    /\ ret.op = "accessor"
    /\ ret.value # Null
    /\ Len(rt.function_pointers) >= 2
    /\ Len(rt.function_pointers) = tables[rt.table].info.method_count

\* C22 witness of the index lookup: fptr_by_index has returned the pointer
\* at a position other than 0.
C22_IndexLookupReached ==
    /\ strategy = "eager"
    /\ rt.state = "loaded"
    /\ ret.op = "fptr_by_index"
    /\ ret.index >= 1
    /\ ret.value = rt.function_pointers[ret.index + 1]

(* ------------------------------------------------------------------------ *)
(* C23: destructor, operators and constructors are emitted when declared.   *)
(* ------------------------------------------------------------------------ *)

\* The emitted entries of the lifecycle table that call getter with arg.
EntriesOf(getter, arg) ==
    {n \in 1..Len(lifecycle.inits) :
        /\ lifecycle.inits[n].getter = getter
        /\ lifecycle.inits[n].arg = arg}

\* The operator list declares an operator with the symbol.
DeclaresOperator(symbol) ==
    \E k \in 1..Len(lifecycle.builtin.operators) : lifecycle.builtin.operators[k] = symbol

\* C23: in the emitted lifecycle entries of a builtin value type there is a
\* destructor entry (one) exactly when the type declares a destructor, an
\* equality evaluator (one) exactly when its operator list has an operator
\* with symbol "==", a less-than evaluator (one) exactly when it has one with
\* symbol "<", no other operator evaluator, and no constructor entry when
\* the type declares no constructors.
C23_EmittedWhenDeclared ==
    lifecycle.pc \in {"emitted", "loaded", "load_failed"} =>
        /\ Cardinality(EntriesOf("get_destroy_fn", "-"))
             = IF lifecycle.builtin.has_destructor THEN 1 ELSE 0
        /\ Cardinality(EntriesOf("get_operator_fn", "equal"))
             = IF DeclaresOperator("==") THEN 1 ELSE 0
        /\ Cardinality(EntriesOf("get_operator_fn", "less"))
             = IF DeclaresOperator("<") THEN 1 ELSE 0
        /\ \A n \in 1..Len(lifecycle.inits) :
              lifecycle.inits[n].getter = "get_operator_fn"
                 => lifecycle.inits[n].arg \in {"equal", "less"}
        /\ lifecycle.builtin.constructors = <<>> =>
              \A n \in 1..Len(lifecycle.inits) :
                 lifecycle.inits[n].getter # "get_construct_fn"

\* C23 witness: a type with a builtin class that declares operators "+" and
\* "<", a destructor and no constructors: the emitted entries are the two
\* conversions, the less-than evaluator and the destructor.
C23_Witness ==
    /\ lifecycle.pc = "loaded"
    /\ lifecycle.builtin.has_class
    /\ lifecycle.builtin.constructors = <<>>
    /\ lifecycle.builtin.has_destructor
    /\ lifecycle.builtin.operators = <<"+", "<">>
    /\ Len(lifecycle.inits) = 4
    /\ EntriesOf("get_operator_fn", "less") # {}
    /\ EntriesOf("get_operator_fn", "equal") = {}

(* ------------------------------------------------------------------------ *)
(* C24: what a failure message identifies.                                  *)
(* ------------------------------------------------------------------------ *)

\* The text msg contains the text name.
Contains(msg, name) ==
    \E i \in 1..(Len(msg) - Len(name) + 1) : SubSeq(msg, i, i + Len(name) - 1) = name

\* C24: every failure identifies what caused it: the message of a
\* generation-time abort (a malformed constructor list, a count or
\* last-index mismatch of a table) names the offending owner, and the
\* message of a resolution failure names the owner, the member and the
\* expected hash.
C24_FailuresIdentify ==
    /\ lifecycle.pc = "aborted" => Contains(lifecycle.panic, lifecycle.builtin.name)
    /\ \A t \in TableIds :
          tables[t].status = "aborted" =>
             \E g \in 1..Len(tables[t].info.method_init_groups) :
                Contains(gen.panic, tables[t].info.method_init_groups[g].class_name)
    /\ \A m \in rt.host_bad :
          /\ rt.state = "failed" =>
                /\ Contains(rt.panic, m[1] \o "::" \o m[2])
                /\ Contains(rt.panic, ToString(m[3]))
          /\ (rt.state = "loaded" /\ IsPanic(ret.value)) =>
                /\ Contains(ret.value[2], m[1] \o "::" \o m[2])
                /\ Contains(ret.value[2], ToString(m[3]))

\* ------------------------------------------------------------------------
\* NotUniqueError::check (godot-core/src/builtin/error/not_unique_error.rs).
\*
\* A Gd<T> is a pointer to a reference-counted object; the host keeps the
\* object's reference count.  RefCounted::new_gd() makes an object with one
\* pointer, Gd::clone adds a pointer and a reference, dropping a Gd releases
\* its reference (the documentation example of NotUniqueError: after one
\* clone the count is 2).

LiveHandles(g, o) == {h \in Handles : g.handles[h] = o}

FreeHandles(g) == {h \in Handles : g.handles[h] = "-"}

\* RefCounted::new_gd(): a fresh object, one pointer to it, reference count 1.
new_gd(g, o, h) ==
    [g EXCEPT !.handles[h] = o, !.count[o] = 1]

\* Gd::clone: one more pointer to the same object, one more reference.
gd_clone(g, h, h2) ==
    [g EXCEPT !.handles[h2] = g.handles[h], !.count[g.handles[h]] = @ + 1]

\* Dropping a Gd releases its reference.
gd_drop(g, h) ==
    [g EXCEPT !.handles[h] = "-", !.count[g.handles[h]] = @ - 1]

\* rc.upcast::<RefCounted>() and rc.cast::<T>() convert the pointer they are
\* given; rc.get_reference_count() asks the host for the object's count.
get_reference_count(g, h) == g.count[g.handles[h]]

\* A check whose upcast clones the pointer instead of converting it reads a
\* count that is one too high.
check_upcast_clones(g, h) ==
    LET o == g.handles[h]
        reference_count == get_reference_count(g, h) + 1
    IN IF reference_count # 1
       THEN LET dropped == gd_drop(g, h)
            IN [dropped EXCEPT !.result =
                   [kind |-> "err", object |-> o, before |-> g.count[o],
                    after |-> dropped.count[o],
                    reference_count |-> reference_count, returned |-> 0]]
       ELSE [g EXCEPT !.result =
                   [kind |-> "ok", object |-> o, before |-> g.count[o],
                    after |-> g.count[o],
                    reference_count |-> reference_count, returned |-> h]]

\* NotUniqueError::check(rc): rc is passed by value.  Ok hands the same
\* pointer back, cast to T; Err keeps only the count that was read, and the
\* pointer passed in is dropped with the call.
check(g, h) ==
    LET o == g.handles[h]
        reference_count == get_reference_count(g, h)
    IN IF reference_count # 1
       THEN LET dropped == gd_drop(g, h)
            IN [dropped EXCEPT !.result =
                   [kind |-> "err", object |-> o, before |-> g.count[o],
                    after |-> dropped.count[o],
                    reference_count |-> reference_count, returned |-> 0]]
       ELSE [g EXCEPT !.result =
                   [kind |-> "ok", object |-> o, before |-> g.count[o],
                    after |-> g.count[o],
                    reference_count |-> reference_count, returned |-> h]]

UniqueFrame == UNCHANGED <<api, strategy, ctx, tables, gen, rt, ret, calls, lifecycle, conc, en>>

NewGd ==
    \E o \in Objects : \E h \in FreeHandles(gd) :
        /\ gd.count[o] = 0
        /\ \A f \in FreeHandles(gd) : h <= f
        /\ gd' = new_gd(gd, o, h)
        /\ UniqueFrame

CloneGd ==
    \E h \in Handles : \E h2 \in FreeHandles(gd) :
        /\ gd.handles[h] # "-"
        /\ gd' = gd_clone(gd, h, h2)
        /\ UniqueFrame

DropGd ==
    \E h \in Handles :
        /\ gd.handles[h] # "-"
        /\ gd' = gd_drop(gd, h)
        /\ UniqueFrame

\* shared.try_to_unique() on the pointer h.
CheckUnique ==
    \E h \in Handles :
        /\ gd.handles[h] # "-"
        /\ gd' = check(gd, h)
        /\ UniqueFrame

InitUnique ==
    /\ Init
    /\ api = [classes |-> <<>>, builtins |-> <<>>]
    /\ strategy = "eager"

NextUnique == NewGd \/ CloneGd \/ DropGd \/ CheckUnique

SpecUnique == InitUnique /\ [][NextUnique]_vars

C25_OkReached ==
    /\ gd.result.kind = "ok"
    /\ gd.handles[gd.result.returned] = gd.result.object

\* The lookups of a lazy table leave the cache's entries as they are, and a
\* lookup that hits the cache changes nothing in the table.
CacheKept ==
    /\ \A k \in DOMAIN rt.cache : k \in DOMAIN rt'.cache /\ rt'.cache[k] = rt.cache[k]
    /\ (ret'.op \in {"fptr_by_key", "accessor"} /\ ret'.hit) =>
          /\ rt'.cache = rt.cache
          /\ rt'.resolver_log = rt.resolver_log
          /\ rt'.state = rt.state /\ rt'.table = rt.table

\* This step is a lookup that invoked the Host Resolver for a key it had
\* been invoked for before (rt.resolver_log: the keys of earlier
\* invocations).
ResolvedAgain ==
    /\ ret'.op \in {"fptr_by_key", "accessor"}
    /\ ~ret'.hit
    /\ ret'.key \in rt.resolver_log

\* C26 as stated: over the fptr_by_key calls on one lazy table the Host
\* Resolver is invoked at most once per distinct key (owner, member and
\* hash), a cached entry is never removed or overwritten, and a lookup that
\* hits the cache changes nothing in the table.
C26_LazyCacheMonotone ==
    [][(strategy = "lazy" /\ rt.state = "loaded") =>
          /\ CacheKept
          /\ ~ResolvedAgain]_vars

\* C26 amended: the Host Resolver is invoked at most once per distinct key
\* for which it returns a pointer; a cached entry is never removed or
\* overwritten, and a lookup that hits the cache changes nothing in the
\* table.  (A key whose resolution fails is not cached, so every further
\* lookup of it invokes the resolver again.)
C26_LazyCacheMonotoneResolved ==
    [][(strategy = "lazy" /\ rt.state = "loaded") =>
          /\ CacheKept
          /\ ResolvedAgain =>
                HostResolve(api, rt.host_bad, ret'.key.owner, ret'.key.method_name,
                            ret'.key.hash) = Null]_vars

\* C26 witness: two keys were resolved once each and the last lookup was a
\* further lookup of one of them, served from the cache.
C26_Witness ==
    /\ strategy = "lazy"
    /\ rt.state = "loaded"
    /\ ret.op = "fptr_by_key"
    /\ ret.hit
    /\ Cardinality(DOMAIN rt.cache) >= 2
    /\ DOMAIN rt.cache = rt.resolver_log

(* ------------------------------------------------------------------------ *)
(* C27: the eager and the lazy table of one API model.                      *)
(* ------------------------------------------------------------------------ *)

\* Generic lookups only: a loaded eager table holds at index i what a lookup
\* of K's key on the lazy table returns, and whatever generic lookups a lazy
\* table has served, in whatever order, each cached and each returned
\* pointer is the one the eager load() of the same table puts at the
\* member's index.
GenericLookupsEquivalent ==
    rt.state = "loaded" =>
        LET info == tables[rt.table].info
            inits == AllInits(info)
        IN /\ strategy = "eager" =>
                 \A n \in 1..Len(inits) :
                     LET key == CallSiteKey(inits[n].method_init)
                     IN /\ IndexRead(rt.function_pointers, inits[n].index)
                              = {fptr_by_key(api, rt.host_bad, <<>>, key).value}
                        /\ key \in rt.resolver_log
           /\ (strategy = "lazy" /\ make_method_table(info, "eager") = "ok") =>
                 LET e == EagerLoad(api, rt.host_bad, info)
                 IN e.panic = "" =>
                       \A n \in 1..Len(inits) :
                           LET key == CallSiteKey(inits[n].method_init)
                               at_i == IndexRead(e.function_pointers, inits[n].index)
                           IN /\ key \in DOMAIN rt.cache => at_i = {rt.cache[key]}
                              /\ (ret.op = "fptr_by_key" /\ ret.key = key) =>
                                    at_i = {ret.value}

\* C27: for the same API model and the same host, every member K that the
\* eager table holds at index i has eager fptr_by_index(i) = lazy
\* fptr_by_key(key of K), whatever order the lazy lookups are made in, and
\* the two strategies differ only in when the resolver is called: the lazy
\* table calls the resolver for no member the eager load() of the same
\* table does not call it for.
C27_StrategyEquivalence ==
    /\ GenericLookupsEquivalent
    /\ (rt.state = "loaded" /\ strategy = "lazy"
        /\ make_method_table(tables[rt.table].info, "eager") = "ok") =>
          LET e == EagerLoad(api, rt.host_bad, tables[rt.table].info)
          IN e.panic = "" => rt.resolver_log \subseteq e.resolver_log

\* C27 witness: on a lazy table of at least two members the member with
\* index 0 was looked up after another one, and resolved by that lookup.
C27_Witness ==
    /\ strategy = "lazy"
    /\ rt.state = "loaded"
    /\ ret.op = "fptr_by_key"
    /\ ~ret.hit
    /\ Cardinality(DOMAIN rt.cache) >= 2
    /\ LET inits == AllInits(tables[rt.table].info)
       IN \E n \in 1..Len(inits) :
             inits[n].index = 0 /\ CallSiteKey(inits[n].method_init) = ret.key

\* An eager table of several members in more than one group was loaded.
C27_EagerReached ==
    /\ strategy = "eager"
    /\ rt.state = "loaded"
    /\ Len(rt.function_pointers) >= 3
    /\ Len(tables[rt.table].info.method_init_groups) >= 2

(* ------------------------------------------------------------------------ *)
(* C28: tables and index categories.                                        *)
(* ------------------------------------------------------------------------ *)

\* Table t generated on its own from a new Context: the owners of t in model
\* order, nothing else generated before.
StandaloneTable(t) ==
    IF t = BuiltinTable
    THEN LET F[i \in 0..Len(api.builtins)] ==
                 IF i = 0 THEN [table |-> NewIndexedMethodTable(t), ctx |-> NewContext]
                 ELSE populate_builtin_methods(F[i - 1].table, api.builtins[i], F[i - 1].ctx)
         IN F[Len(api.builtins)].table
    ELSE LET F[i \in 0..Len(api.classes)] ==
                 IF i = 0 THEN [table |-> NewIndexedMethodTable(t), ctx |-> NewContext]
                 ELSE IF api.classes[i].api_level = t
                 THEN populate_class_methods(F[i - 1].table, api.classes[i], F[i - 1].ctx)
                 ELSE F[i - 1]
         IN F[Len(api.classes)].table

\* The class tables that hold an initializer group of the class named n.
TablesOfClass(n) ==
    {t \in LevelSet :
        \E g \in 1..Len(tables[t].info.method_init_groups) :
            tables[t].info.method_init_groups[g].class_name = n}

\* C28: every class contributes its methods to exactly one class table, the
\* one of its own API level; every key allocated while a table is populated
\* has that table's category; and a table's descriptor, with the indices of
\* its members, is the one the table gets when it is generated alone on a
\* new Context, so the order in which the tables are generated does not
\* change the indices within a table.
C28_TableCategory ==
    [][/\ \A k \in DOMAIN ctx'.method_table_indices :
             k \notin DOMAIN ctx.method_table_indices =>
                /\ gen.pc = "populating"
                /\ category(k) = TableCategory(gen.table)
       /\ \A i \in 1..Len(api.classes) :
             /\ TablesOfClass(api.classes[i].name)' \subseteq {api.classes[i].api_level}
             /\ (Populated(api.classes[i].api_level)'
                 /\ \E j \in 1..Len(api.classes[i].methods) :
                       api.classes[i].methods[j].outbound) =>
                   TablesOfClass(api.classes[i].name)' = {api.classes[i].api_level}
       /\ \A t \in TableIds :
             (Populated(t)' /\ ~Populated(t)) => tables'[t].info = StandaloneTable(t)]_vars

\* C28 witness: the run is complete with members in two class tables and in
\* the builtin table; the builtin table was generated after the class
\* tables, and its indices start at 0.
C28_Witness ==
    /\ GenerationDone
    /\ Cardinality({t \in LevelSet : tables[t].info.method_count > 0}) >= 2
    /\ tables[BuiltinTable].info.method_count > 0
    /\ \E k \in DOMAIN ctx.method_table_indices :
          category(k) = "builtin" /\ ctx.method_table_indices[k] = 0

(* ------------------------------------------------------------------------ *)
(* C29: the builtin method table and built-in types without methods.        *)
(* ------------------------------------------------------------------------ *)

\* The members of table t have consistently allocated indices: as many
\* initializers as method_count, holding exactly the indices
\* 0..method_count-1 in order.
IndicesConsistent(t) ==
    LET idx == InitIndexSeq(t)
    IN /\ Len(idx) = tables[t].info.method_count
       /\ \A i \in 1..Len(idx) : idx[i] = i - 1

\* C29: whenever the built-in types with an associated class have
\* consistently allocated indices, make_builtin_method_table completes and
\* the table's code is emitted, also when the last such built-in type, or
\* every one of them, declares no methods.
C29_BuiltinTableCompletes ==
    (Populated(BuiltinTable) /\ IndicesConsistent(BuiltinTable)) =>
        tables[BuiltinTable].status = "emitted"

\* Under the lazy build the builtin table of a method-less last built-in
\* type is emitted.
C29_LazyCompletes ==
    /\ strategy = "lazy"
    /\ tables[BuiltinTable].status = "emitted"
    /\ tables[BuiltinTable].info.method_init_groups # <<>>
    /\ LET groups == tables[BuiltinTable].info.method_init_groups
       IN groups[Len(groups)].method_inits = <<>>

(* ------------------------------------------------------------------------ *)
(* try_count_index_enum (godot-codegen/src/util.rs).                        *)
(* ------------------------------------------------------------------------ *)

\* Most enumerators of one enum.
MaxEnumerators == 3

\* Highest ordinal an enumerator declares; the lowest is -1.
MaxOrdinal == 2

\* Godot names of enumerators: an ordinary one, one ending in "_MAX", and
\* one that ends in "MAX" without the underscore.
EnumeratorNames == {"KEY_A", "KEY_MAX", "KEYMAX"}

Enumerators == [godot_name : EnumeratorNames, value : -1..MaxOrdinal]

\* The enums of the API model: any enumerators in declaration order.
Enums ==
    [is_bitfield : BOOLEAN,
     enumerators : UNION {[1..n -> Enumerators] : n \in 0..MaxEnumerators}]

\* str::ends_with.
ends_with(s, suffix) ==
    /\ Len(s) >= Len(suffix)
    /\ SubSeq(s, Len(s) - Len(suffix) + 1, Len(s)) = suffix

\* Vec::sort_by_key(|v| v.value.to_i64()): a stable sort, enumerators of
\* equal ordinal keep their declaration order.
RECURSIVE sort_by_key(_)
sort_by_key(es) ==
    IF es = <<>> THEN <<>>
    ELSE LET sorted == sort_by_key(SubSeq(es, 1, Len(es) - 1))
             e == es[Len(es)]
             before == {i \in 1..Len(sorted) : sorted[i].value <= e.value}
             k == Cardinality(before)
         IN SubSeq(sorted, 1, k) \o <<e>> \o SubSeq(sorted, k + 1, Len(sorted))

\* The loop over the sorted enumerators: last_value after the enumerators
\* 1..i; gap once an ordinal was neither last_value nor last_value + 1.
ContiguousFrom(start, enumerators) ==
    LET F[i \in 0..Len(enumerators)] ==
            IF i = 0 THEN [gap |-> FALSE, last_value |-> start]
            ELSE IF F[i - 1].gap THEN F[i - 1]
            ELSE LET e_value == enumerators[i].value
                     last_value == F[i - 1].last_value
                 IN IF last_value # e_value /\ last_value + 1 # e_value
                    THEN [gap |-> TRUE, last_value |-> last_value]
                    ELSE [gap |-> FALSE, last_value |-> e_value]
    IN F[Len(enumerators)]

\* try_count_index_enum.
try_count_index_enum(enum_) ==
    IF enum_.is_bitfield \/ enum_.enumerators = <<>>
    THEN None
    ELSE LET enumerators == sort_by_key(enum_.enumerators)
             last == enumerators[Len(enumerators)]
         IN IF ~ends_with(last.godot_name, "_MAX")
            THEN None
            ELSE LET loop == ContiguousFrom(0, enumerators)
                 IN IF loop.gap THEN None ELSE Some(loop.last_value)

EnumFrame ==
    UNCHANGED <<api, strategy, ctx, tables, gen, rt, ret, calls, lifecycle, conc, gd>>

\* make_enum_definition asks whether the enum is indexable.
CountIndexEnum ==
    /\ en.pc = "given"
    /\ en' = [en EXCEPT !.pc = "done", !.result = try_count_index_enum(en.enum)]
    /\ EnumFrame

InitEnum ==
    /\ api = [classes |-> <<>>, builtins |-> <<>>]
    /\ strategy = "eager"
    /\ ctx = NewContext
    /\ tables = [t \in TableIds |-> [status |-> "none", info |-> NewIndexedMethodTable(t)]]
    /\ gen = [pc |-> "idle", table |-> "-", pos |-> 0, panic |-> ""]
    /\ rt = NoTable
    /\ ret = NoRet
    /\ calls = <<>>
    /\ lifecycle = NoLifecycle
    /\ conc = NoConc
    /\ gd = NoGd
    /\ en \in [pc : {"given"}, enum : Enums, result : {None}]

NextEnum == CountIndexEnum

SpecEnum == InitEnum /\ [][NextEnum]_vars

\* The ordinals an enum declares.
Ordinals(enum_) == {enum_.enumerators[i].value : i \in 1..Len(enum_.enumerators)}

\* The enumerator with the highest ordinal; of several with that ordinal,
\* the one declared last.
Highest(enum_) ==
    LET es == enum_.enumerators
        top == {i \in 1..Len(es) : \A j \in 1..Len(es) : es[j].value <= es[i].value}
    IN es[CHOOSE i \in top : \A j \in top : j <= i]

\* The conditions under which an enum counts as indexable: not a bitfield,
\* not empty, the enumerator with the highest ordinal is named ..._MAX, and
\* the ordinals, sorted ascending, start from 0 and have no gaps.
Indexable(enum_) ==
    /\ ~enum_.is_bitfield
    /\ enum_.enumerators # <<>>
    /\ ends_with(Highest(enum_).godot_name, "_MAX")
    /\ 0 \in Ordinals(enum_)
    /\ \A v \in Ordinals(enum_) : v >= 0
    /\ \A v \in Ordinals(enum_) : v = 0 \/ (v - 1) \in Ordinals(enum_)

\* C30: try_count_index_enum returns Some(n) only for a non-bitfield,
\* non-empty enum whose enumerator with the highest ordinal is named
\* ..._MAX and whose ordinals, sorted ascending, have no gaps starting from
\* 0; n is then the ordinal of the MAX enumerator, and every value in
\* 0..n-1 is the ordinal of some enumerator.  In every other case it
\* returns None.
C30_CountIndexEnum ==
    en.pc = "done" =>
        /\ en.result # None =>
              /\ Indexable(en.enum)
              /\ en.result = Some(Highest(en.enum).value)
              /\ \A v \in 0..(Highest(en.enum).value - 1) : v \in Ordinals(en.enum)
        /\ ~Indexable(en.enum) => en.result = None

\* An enum with the ordinals 0, 1, 1 and KEY_MAX = 2 was counted: Some(2).
C30_IndexableReached ==
    /\ en.pc = "done"
    /\ en.result = Some(2)
    /\ Len(en.enum.enumerators) >= 3
    /\ Indexable(en.enum)

====
